---- MODULE Spec2Model ----
(***************************************************************************)
(* Verification model of the rice domain kernel.                            *)
(*                                                                          *)
(* Part 1: the event-sourced AggregateRoot (applyEvent, replay,             *)
(* clearEvents, uncommittedEvents, updateState, statePipe, safeUpdate) and  *)
(* the Entity operation it inherits (transition).                           *)
(*                                                                          *)
(* Spec follows one aggregate and its caller.  The caller holds the         *)
(* aggregate and the list it last read through uncommittedEvents; an        *)
(* operation that returns a new instance hands the caller that instance,    *)
(* which it holds from then on.  The pendingEvents field is a reference to  *)
(* an array, so that aliasing between the aggregate's list and the          *)
(* caller's list is something the model can express.                        *)
(*                                                                          *)
(* SpecReplay follows the static replay and compares it with a replay of a  *)
(* prefix continued by applyEvent.                                          *)
(*                                                                          *)
(* Part 2: the Entity contract (create, equals, transition), the            *)
(* ValueObject base class (create, equals, hashCode) and the SpecValidator  *)
(* (validate, normalize, getReadableError), each under a specification of   *)
(* its own: SpecEntity, SpecValueObject, SpecNormalize, SpecMessages and    *)
(* SpecEquality.                                                            *)
(*                                                                          *)
(* Part 3: the utilities and services built on the kernel, each call        *)
(* followed from its arguments to what it returns: primitiveCompare         *)
(* (SpecCompare), ValueObject.map and pipe (SpecPipe), the Result methods   *)
(* (SpecResult), the transaction manager and its retry wrapper             *)
(* (SpecTransactions), the password policy (SpecPolicy), the domain-event   *)
(* list of an aggregate (SpecDomainEvents), the copy-on-write updates of    *)
(* the event-sourced aggregate (SpecCopies) and the event processing        *)
(* pipeline (SpecPipeline).                                                 *)
(***************************************************************************)
EXTENDS Integers, Sequences, FiniteSets, TLC

\* ------------------------------------------------------------------ bounds
MaxVersion == 3     \* cap on the events applied to one aggregate
MaxState == 1       \* state payloads are 0..MaxState
MaxReplay == 3      \* longest event list handed to replay
MaxPipe == 2        \* longest operation list handed to statePipe
MaxStrLen == 2      \* longest raw string handed to the validator
MaxTransforms == 2  \* longest transform list of a spec
MaxErrors == 2      \* most violations reported by one validation
MaxProps == 2       \* most properties of a structured payload
MaxRetries == 2     \* largest maxRetries handed to withRetry

\* ------------------------------------------------------------------ inputs
Ids == {"id1", "id2"}
States == 0..MaxState
EmptyState == 0     \* the payload `{}` replay starts from
ArrRefs == {1, 2}   \* the aggregate's array and the caller's list

\* Event type tags of the events a caller can hand to the aggregate.
EventTypes == {"Opened", "Credited", "Rejected", "Crashed", "Unknown"}
Events == [eventType : EventTypes]
ForeignEvent == [eventType |-> "Unknown"]

\* The concrete aggregate class the operations run on: the methods it
\* defines and what each does when invoked as an event handler.
\*   onOpened, onCredited  return ok(undefined)
\*   onRejected            returns fail(error)
\*   onCrashed             throws
\* and there is no method onUnknown.
Methods == {"onOpened", "onCredited", "onRejected", "onCrashed"}
HandlerBody(name) ==
    CASE name = "onOpened" -> [kind |-> "ok", err |-> "none"]
      [] name = "onCredited" -> [kind |-> "ok", err |-> "none"]
      [] name = "onRejected" -> [kind |-> "fail", err |-> "rejected"]
      [] name = "onCrashed" -> [kind |-> "throw", err |-> "crashed"]

\* State updaters and validators a caller can pass.
Updaters == {"bump", "reset"}
RunUpdater(u, s) == IF u = "bump" THEN (s + 1) % (MaxState + 1) ELSE 0
Validators == {"any", "mustBeZero"}
RunValidator(v, s) ==
    IF v = "mustBeZero" /\ s # 0
    THEN [kind |-> "fail", err |-> "invalid state"]
    ELSE [kind |-> "ok", err |-> "none"]

SeqsUpTo(S, n) == UNION {[1..k -> S] : k \in 0..n}

\* ------------------------------------------------------------------- state
VARIABLES
    agg,        \* the aggregate the caller holds
    arrays,     \* ArrRefs -> sequence of events (<<>> while unreferenced)
    view,       \* the list the caller last got from uncommittedEvents, if any
    last,       \* the last operation: what was called and what it returned
    applied,    \* history: successful applyEvent calls since creation
    uncleared,  \* history: events applied since the last clearEvents
    rInput,     \* replay: the id, the event list and the split point
    rWhole,     \* replay: outcome of replay(id, events)
    rAgain,     \* replay: outcome of a second replay(id, events)
    rSplit      \* replay: replay of events[0..k], continued by applyEvent

VARIABLES
    ents,       \* entities: the two instances a caller holds, if created
    eLast,      \* entities: the last operation and what it returned
    nIn,        \* normalize: the raw value, the transforms, the runtime
    nFirst,     \* normalize: outcome of normalize(x, transforms)
    nSecond,    \* normalize: outcome of normalize(that, transforms)
    vIn,        \* validate: the raw value, the kind's spec, the options
    vResult,    \* validate: what validator.validate returned
    cResult,    \* validate: what Kind.create returned
    mIn,        \* messages: the violations and the spec's custom messages
    mOut,       \* messages: what formatErrors returned
    qIn,        \* equality: the payloads of two value objects of one kind
    qOut        \* equality: what equals and hashCode returned for them

VARIABLES
    fIn,        \* a call of a pure function: its arguments
    fOut        \* a call of a pure function: what it returned

VARIABLES
    tmActive,   \* transactions: the manager's activeTransactions set
    calls,      \* transactions: each caller's execute/withTransaction call
    retry       \* transactions: the call of withRetry(manager, n).execute

VARIABLES
    de,         \* domain events: the aggregate's list and the caller's reference
    cow         \* copies: an aggregate, the copy made of it, the last operation

aggVars == <<agg, arrays, view, last, applied, uncleared>>
replayVars == <<rInput, rWhole, rAgain, rSplit>>
entityVars == <<ents, eLast>>
normalizeVars == <<nIn, nFirst, nSecond>>
validateVars == <<vIn, vResult, cResult>>
messageVars == <<mIn, mOut>>
equalityVars == <<qIn, qOut>>
callVars == <<fIn, fOut>>
txVars == <<tmActive, calls, retry>>
serviceVars == <<callVars, txVars, de, cow>>
kernelVars == <<entityVars, normalizeVars, validateVars, messageVars, equalityVars,
                serviceVars>>
vars == <<agg, arrays, view, last, applied, uncleared, rInput, rWhole, rAgain, rSplit,
          kernelVars>>

Min(S) == CHOOSE m \in S : \A n \in S : m <= n
\* An array nobody references any more is garbage.
Collect(a, v, arrs) ==
    [x \in ArrRefs |-> IF x = a.pendingEvents \/ x \in v THEN arrs[x] ELSE <<>>]
\* The events the aggregate holds.
Pending == arrays[agg.pendingEvents]

NoOp == [op |-> "createAggregate", event |-> ForeignEvent, kind |-> "ok",
         err |-> "none", fresh |-> TRUE]

\* ------------------------------------------------------------ AggregateRoot
\* constructor(id, state, version = 0)
DefaultVersion == 0

\* new Constructor(id, state, version): the field initialiser gives every
\* instance its own, empty pendingEvents array.
NewAggregate(id, state, version, arr) ==
    [id |-> id, state |-> state, version |-> version, pendingEvents |-> arr]

\* getEventHandler: the method named `on${event.eventType}`, if it is one.
getEventHandler(event) ==
    LET handlerName == "on" \o event.eventType
    IN IF handlerName \in Methods THEN handlerName ELSE "undefined"

\* applyEvent recording the event before the handler has accepted it.
applyEvent_PushBeforeHandler(version, pending, event) ==
    LET handler == getEventHandler(event) IN
    IF handler = "undefined"
    THEN [kind |-> "fail", err |-> "No event handler for " \o event.eventType,
          version |-> version, pending |-> pending, invoked |-> <<>>]
    ELSE LET result == HandlerBody(handler) IN
         [kind |-> result.kind, err |-> result.err,
          version |-> version + 1, pending |-> Append(pending, event),
          invoked |-> <<event>>]

\* applyEvent forgetting this.version++.
applyEvent_NoVersionBump(version, pending, event) ==
    LET handler == getEventHandler(event) IN
    IF handler = "undefined"
    THEN [kind |-> "fail", err |-> "No event handler for " \o event.eventType,
          version |-> version, pending |-> pending, invoked |-> <<>>]
    ELSE LET result == HandlerBody(handler) IN
         IF result.kind # "ok"
         THEN [kind |-> result.kind, err |-> result.err,
               version |-> version, pending |-> pending, invoked |-> <<event>>]
         ELSE [kind |-> "ok", err |-> "none",
               version |-> version, pending |-> Append(pending, event),
               invoked |-> <<event>>]

\* applyEvent recording an event nobody handles.
applyEvent_MissingHandlerIsOk(version, pending, event) ==
    LET handler == getEventHandler(event) IN
    IF handler = "undefined"
    THEN [kind |-> "ok", err |-> "none",
          version |-> version + 1, pending |-> Append(pending, event),
          invoked |-> <<>>]
    ELSE LET result == HandlerBody(handler) IN
         IF result.kind # "ok"
         THEN [kind |-> result.kind, err |-> result.err,
               version |-> version, pending |-> pending, invoked |-> <<event>>]
         ELSE [kind |-> "ok", err |-> "none",
               version |-> version + 1, pending |-> Append(pending, event),
               invoked |-> <<event>>]

\* applyEvent on the fields it reads and writes: the Result it returns, the
\* version and pending list the receiver has when the call ends, and the
\* events a handler was invoked with.
applyEvent(version, pending, event) ==
    LET handler == getEventHandler(event) IN
    IF handler = "undefined"
    THEN [kind |-> "fail", err |-> "No event handler for " \o event.eventType,
          version |-> version, pending |-> pending, invoked |-> <<>>]
    ELSE LET result == HandlerBody(handler) IN
         IF result.kind = "throw"
         THEN [kind |-> "throw", err |-> result.err,
               version |-> version, pending |-> pending, invoked |-> <<event>>]
         ELSE IF result.kind = "fail"
         THEN [kind |-> "fail", err |-> result.err,
               version |-> version, pending |-> pending, invoked |-> <<event>>]
         ELSE [kind |-> "ok", err |-> "none",
               version |-> version + 1, pending |-> Append(pending, event),
               invoked |-> <<event>>]

\* clearEvents starting the aggregate over.
clearEvents_ResetVersion(version) == [version |-> 0, pending |-> <<>>]

\* clearEvents: this.pendingEvents = []
clearEvents(version) == [version |-> version, pending |-> <<>>]

\* uncommittedEvents handing out the aggregate's own array.
uncommittedEvents_Alias(pendingRef, freshRef) == pendingRef

\* uncommittedEvents: [...this.pendingEvents], a new array.
uncommittedEvents(pendingRef, freshRef) == freshRef

\* copyWithState: new Constructor(this.id, newState, this.version)
copyWithState(a, newState, arr) == NewAggregate(a.id, newState, a.version, arr)

\* updateState: copyWithState(updater(this.state))
updateState(a, updater, arr) == copyWithState(a, RunUpdater(updater, a.state), arr)

\* statePipe: operations.reduce((agg, op) => agg.updateState(op), this)
RECURSIVE statePipe(_, _, _)
statePipe(a, operations, arr) ==
    IF operations = <<>> THEN a
    ELSE statePipe(updateState(a, Head(operations), arr), Tail(operations), arr)

\* safeUpdate: validate updater(this.state), then copyWithState
safeUpdate(a, updater, validator, arr) ==
    LET newState == RunUpdater(updater, a.state)
        validation == RunValidator(validator, newState)
    IN IF validation.kind = "fail"
       THEN [kind |-> "fail", err |-> validation.err, agg |-> a]
       ELSE [kind |-> "ok", err |-> "none", agg |-> copyWithState(a, newState, arr)]

\* Entity.transition: new Constructor(this.id, updater(this.state))
transition(a, updater, arr) ==
    NewAggregate(a.id, RunUpdater(updater, a.state), DefaultVersion, arr)

NoAggregate == [id |-> "none", state |-> EmptyState, version |-> 0, pending |-> <<>>]

\* The replay loop going on to the next event after a failed application.
RECURSIVE replayLoop_Continue(_, _, _)
replayLoop_Continue(current, events, invoked) ==
    IF events = <<>>
    THEN [kind |-> "ok", err |-> "none", agg |-> current, invoked |-> invoked]
    ELSE LET result == applyEvent(current.version, current.pending, Head(events))
         IN replayLoop_Continue([current EXCEPT !.version = result.version,
                                                !.pending = result.pending],
                                Tail(events), invoked \o result.invoked)

\* replay: fold applyEvent over the events, from a version-0 instance with
\* state `{}`.  `current` is the instance (with the contents of its pending
\* list); a failing application returns its Result, a throwing handler
\* unwinds the loop, and only ok(current) carries an instance.
RECURSIVE replayLoop(_, _, _)
replayLoop(current, events, invoked) ==
    IF events = <<>>
    THEN [kind |-> "ok", err |-> "none", agg |-> current, invoked |-> invoked]
    ELSE LET result == applyEvent(current.version, current.pending, Head(events))
         IN IF result.kind # "ok"
            THEN [kind |-> result.kind, err |-> result.err, agg |-> NoAggregate,
                  invoked |-> invoked \o result.invoked]
            ELSE replayLoop([current EXCEPT !.version = result.version,
                                            !.pending = result.pending],
                            Tail(events), invoked \o result.invoked)

\* replay numbering the new instance by the length of the event list.
replay_VersionFromLength(id, events) ==
    replayLoop([id |-> id, state |-> EmptyState, version |-> Len(events),
                pending |-> <<>>], events, <<>>)

replay(id, events) ==
    replayLoop([id |-> id, state |-> EmptyState, version |-> DefaultVersion,
                pending |-> <<>>], events, <<>>)

\* -------------------------------------------------------------- operations
\* The array a new instance gets: any array but the caller's list.
FreshArr == Min(ArrRefs \ view)

\* aggregate.applyEvent(event)
ApplyEvent(event) ==
    /\ agg.version < MaxVersion /\ applied < MaxVersion
    /\ LET res == applyEvent(agg.version, Pending, event)
       IN /\ agg' = [agg EXCEPT !.version = res.version]
          /\ arrays' = [arrays EXCEPT ![agg.pendingEvents] = res.pending]
          /\ applied' = IF res.kind = "ok" THEN applied + 1 ELSE applied
          /\ uncleared' = IF res.kind = "ok" THEN Append(uncleared, event) ELSE uncleared
          /\ last' = [op |-> "applyEvent", event |-> event, kind |-> res.kind,
                      err |-> res.err, fresh |-> FALSE]
    /\ UNCHANGED <<view, replayVars, kernelVars>>

\* aggregate.clearEvents()
ClearEvents ==
    /\ LET res == clearEvents(agg.version)
           a == FreshArr
       IN /\ agg' = [agg EXCEPT !.version = res.version, !.pendingEvents = a]
          /\ arrays' = Collect(agg', view, [arrays EXCEPT ![a] = res.pending])
    /\ uncleared' = <<>>
    /\ last' = [NoOp EXCEPT !.op = "clearEvents", !.kind = "void", !.fresh = FALSE]
    /\ UNCHANGED <<view, applied, replayVars, kernelVars>>

\* list = aggregate.uncommittedEvents
UncommittedEvents ==
    /\ LET f == Min(ArrRefs \ {agg.pendingEvents})
           got == uncommittedEvents(agg.pendingEvents, f)
       IN /\ view' = {got}
          /\ arrays' = Collect(agg, {got}, [arrays EXCEPT ![f] = Pending])
    /\ last' = [NoOp EXCEPT !.op = "uncommittedEvents", !.fresh = FALSE]
    /\ UNCHANGED <<agg, applied, uncleared, replayVars, kernelVars>>

\* The caller writes to the list it got: list.push(e), list.length = 0.
CallerPush ==
    /\ \E v \in view :
         /\ Len(arrays[v]) <= MaxVersion
         /\ arrays' = [arrays EXCEPT ![v] = Append(@, ForeignEvent)]
    /\ last' = [NoOp EXCEPT !.op = "callerPush", !.kind = "void", !.fresh = FALSE]
    /\ UNCHANGED <<agg, view, applied, uncleared, replayVars, kernelVars>>

CallerTruncate ==
    /\ \E v \in view : arrays' = [arrays EXCEPT ![v] = <<>>]
    /\ last' = [NoOp EXCEPT !.op = "callerTruncate", !.kind = "void", !.fresh = FALSE]
    /\ UNCHANGED <<agg, view, applied, uncleared, replayVars, kernelVars>>

\* An operation returned the instance `a`; the caller holds it from now on.
Returned(a, op, kind, err) ==
    /\ agg' = a
    /\ arrays' = IF a = agg THEN arrays
                 ELSE Collect(a, view, [arrays EXCEPT ![a.pendingEvents] = <<>>])
    /\ last' = [NoOp EXCEPT !.op = op, !.kind = kind, !.err = err, !.fresh = (a # agg)]
    /\ UNCHANGED <<view, applied, uncleared, replayVars, kernelVars>>

\* aggregate = aggregate.transition(updater)
Transition(updater) ==
    Returned(transition(agg, updater, FreshArr), "transition", "ok", "none")

\* aggregate = aggregate.updateState(updater)
UpdateState(updater) ==
    Returned(updateState(agg, updater, FreshArr), "updateState", "ok", "none")

\* aggregate = aggregate.statePipe(...operations)
StatePipe(operations) ==
    Returned(statePipe(agg, operations, FreshArr), "statePipe", "ok", "none")

\* aggregate.safeUpdate(updater, validator)
SafeUpdate(updater, validator) ==
    LET res == safeUpdate(agg, updater, validator, FreshArr)
    IN Returned(res.agg, "safeUpdate", res.kind, res.err)

NoOutcome == [kind |-> "none"]

\* ---------------------------------------------------------------- Primitive
\* A primitive value: its typeof, and for a number which of the special
\* values it is.  A symbol is the n-th symbol created, described by s.
Prim(type, tag, n, s) == [type |-> type, tag |-> tag, n |-> n, s |-> s]
StrP(s) == Prim("string", "none", 0, s)
NumP(n) == Prim("number", "fin", n, "")
NegZeroP == Prim("number", "negzero", 0, "")
NaNP == Prim("number", "nan", 0, "")
PosInfP == Prim("number", "pinf", 0, "")
NegInfP == Prim("number", "ninf", 0, "")
BoolP(b) == Prim("boolean", "none", IF b THEN 1 ELSE 0, "")
NullP == Prim("null", "none", 0, "")
UndefinedP == Prim("undefined", "none", 0, "")
BigIntP(n) == Prim("bigint", "none", n, "")
SymbolP(n, description) == Prim("symbol", "none", n, description)

\* a === b on primitives: NaN equals nothing, -0 equals +0, a symbol equals
\* only itself.
StrictEquals(a, b) ==
    IF a.type # b.type THEN FALSE
    ELSE IF a.type = "number"
    THEN /\ a.tag # "nan" /\ b.tag # "nan"
         /\ [a EXCEPT !.tag = IF @ = "negzero" THEN "fin" ELSE @]
              = [b EXCEPT !.tag = IF @ = "negzero" THEN "fin" ELSE @]
    ELSE a = b

\* primitiveEquals: NaN equals NaN, anything else by ===
primitiveEquals(a, b) ==
    IF a.type = "number" /\ a.tag = "nan" /\ b.type = "number" /\ b.tag = "nan"
    THEN TRUE
    ELSE StrictEquals(a, b)

\* `${value}` of a primitive that is not a symbol.
TemplateString(p) ==
    CASE p.type = "string" -> p.s
      [] p.type = "number" ->
           (CASE p.tag = "nan" -> "NaN"
              [] p.tag = "pinf" -> "Infinity"
              [] p.tag = "ninf" -> "-Infinity"
              [] p.tag = "negzero" -> "0"
              [] OTHER -> ToString(p.n))
      [] p.type = "boolean" -> (IF p.n = 1 THEN "true" ELSE "false")
      [] p.type = "bigint" -> ToString(p.n)
      [] OTHER -> p.type

\* primitiveHash
primitiveHash(value) ==
    IF value.type = "number" /\ value.tag = "nan" THEN "number:NaN"
    ELSE IF value.type = "number" /\ value.tag = "pinf" THEN "number:Infinity"
    ELSE IF value.type = "number" /\ value.tag = "ninf" THEN "number:-Infinity"
    ELSE IF value.type = "null" THEN "null"
    ELSE IF value.type = "undefined" THEN "undefined"
    ELSE IF value.type = "symbol"
    THEN "Symbol(" \o (IF value.s = "" THEN "anonymous" ELSE value.s) \o ")"
    ELSE IF value.type = "bigint" THEN "BigInt(" \o ToString(value.n) \o ")"
    ELSE value.type \o ":" \o TemplateString(value)

\* ------------------------------------------------------------------- Entity
\* The concrete entity class the operations run on validates its raw inputs
\* like this: an id must be a non-empty string, a state payload must not be
\* negative.
RawIds == Ids \cup {""}
RawStates == States \cup {-1}
validateId(id) ==
    IF id = "" THEN [kind |-> "fail", err |-> "invalid id"]
    ELSE [kind |-> "ok", err |-> "none"]
validateState(state) ==
    IF state < 0 THEN [kind |-> "fail", err |-> "invalid state"]
    ELSE [kind |-> "ok", err |-> "none"]

\* The constructor keeping the state object writable.
EntityNew_NoFreeze(id, state, version) ==
    [id |-> id, state |-> state, frozen |-> FALSE, version |-> version,
     pending |-> <<>>]

\* constructor: this.id = id; this.state = Object.freeze(state); an
\* aggregate adds its version and an empty pendingEvents list.
EntityNew(id, state, version) ==
    [id |-> id, state |-> state, frozen |-> TRUE, version |-> version,
     pending |-> <<>>]

\* No instance.
NoEntity == [id |-> "none", state |-> EmptyState, frozen |-> TRUE,
             version |-> DefaultVersion, pending |-> <<>>]

\* Entity.create: validateId, then validateState, then new this(id, state)
Entity_create(id, state) ==
    LET idResult == validateId(id)
        stateResult == validateState(state)
    IN IF idResult.kind = "fail"
       THEN [kind |-> "fail", err |-> idResult.err, made |-> NoEntity]
       ELSE IF stateResult.kind = "fail"
       THEN [kind |-> "fail", err |-> stateResult.err, made |-> NoEntity]
       ELSE [kind |-> "ok", err |-> "none",
             made |-> EntityNew(id, state, DefaultVersion)]

\* AggregateRoot.createAggregate: ok(new this(id, state, 0))
createAggregate(id, state) ==
    [kind |-> "ok", err |-> "none", made |-> EntityNew(id, state, 0)]

\* Entity.equals comparing the states as well.
Entity_equals_WithState(a, b, same) ==
    IF same THEN TRUE
    ELSE primitiveEquals(StrP(a.id), StrP(b.id)) /\ a.state = b.state

\* Entity.equals: this === other, or this.id.equals(other.id); the id is a
\* ValueObject over a primitive, compared by primitiveEquals.
Entity_equals(a, b, same) ==
    IF same THEN TRUE
    ELSE primitiveEquals(StrP(a.id), StrP(b.id))

\* Updaters a caller can hand to Entity.transition: the pure ones above, and
\* one that writes to the state object it is given and returns it.
EntityUpdaters == Updaters \cup {"scribble"}

\* Entity.transition: new Constructor(this.id, updater(this.state)).  The
\* write of a scribbling updater throws on the frozen state object; on a
\* writable one it would change the receiver's state in place.
Entity_transition(a, updater) ==
    IF updater = "scribble"
    THEN IF a.frozen
         THEN [kind |-> "throw", receiver |-> a, result |-> NoEntity]
         ELSE LET written == RunUpdater("bump", a.state)
              IN [kind |-> "ok", receiver |-> [a EXCEPT !.state = written],
                  result |-> EntityNew(a.id, written, DefaultVersion)]
    ELSE [kind |-> "ok", receiver |-> a,
          result |-> EntityNew(a.id, RunUpdater(updater, a.state), DefaultVersion)]

\* ------------------------------------------------------------ SpecValidator
\* A JavaScript value as the validator sees it.
\*   string  plain text is the character sequence s; the text a Date prints
\*           is (form, n, cs): form "iso" is toISOString of year n, "locale"
\*           is toLocaleString showing the year as n, "invalid" is the text
\*           "Invalid Date"; cs tells whether it was lower- or upper-cased
\*   number  the integer n
\*   date    a Date in year n, or an Invalid Date when n = 0
\*   object  a plain object
JsVal(t, s, n, form, cs) == [t |-> t, s |-> s, n |-> n, form |-> form, cs |-> cs]
Str(s) == JsVal("string", s, 0, "chars", "asis")
Num(n) == JsVal("number", <<>>, n, "none", "asis")
DateObj(year) == JsVal("date", <<>>, year, "none", "asis")
DateText(form, year, cs) == JsVal("string", <<>>, year, form, cs)
PlainObject == JsVal("object", <<>>, 0, "none", "asis")

isString(value) == value.t = "string"
isDate(value) == value.t = "date"

\* The characters raw strings are made of.
Chars == {" ", "a", "B", "7"}
IsDigit(c) == c = "7"
LowerChar(c) == CASE c = "A" -> "a" [] c = "B" -> "b" [] OTHER -> c
UpperChar(c) == CASE c = "a" -> "A" [] c = "b" -> "B" [] OTHER -> c

\* String.prototype.trimStart, trimEnd, trim, toLowerCase, toUpperCase
RECURSIVE TrimStartChars(_)
TrimStartChars(s) ==
    IF s # <<>> /\ Head(s) = " " THEN TrimStartChars(Tail(s)) ELSE s
RECURSIVE TrimEndChars(_)
TrimEndChars(s) ==
    IF s # <<>> /\ s[Len(s)] = " " THEN TrimEndChars(SubSeq(s, 1, Len(s) - 1)) ELSE s
\* trimStart dropping one white-space character only.
trimStart_OneChar(v) ==
    IF v.form = "chars" /\ v.s # <<>> /\ Head(v.s) = " "
    THEN [v EXCEPT !.s = Tail(@)] ELSE v
trimStart(v) == IF v.form = "chars" THEN [v EXCEPT !.s = TrimStartChars(@)] ELSE v
trimEnd(v) == IF v.form = "chars" THEN [v EXCEPT !.s = TrimEndChars(@)] ELSE v
trim(v) == trimEnd(trimStart(v))
toLowerCase(v) ==
    IF v.form = "chars" THEN [v EXCEPT !.s = [i \in DOMAIN @ |-> LowerChar(@[i])]]
    ELSE [v EXCEPT !.cs = "lower"]
toUpperCase(v) ==
    IF v.form = "chars" THEN [v EXCEPT !.s = [i \in DOMAIN @ |-> UpperChar(@[i])]]
    ELSE [v EXCEPT !.cs = IF v.form = "invalid" THEN "upper" ELSE "asis"]

\* parseInt / parseFloat of a string: the digits after any leading white
\* space, NaN (-1 here) when there are none.  The texts of the model hold no
\* sign, point, exponent or radix prefix, so both functions read the same.
RECURSIVE DigitsValue(_, _)
DigitsValue(s, acc) ==
    IF s = <<>> \/ ~IsDigit(Head(s)) THEN acc
    ELSE DigitsValue(Tail(s), acc * 10 + 7)
parseNumber(v) ==
    CASE v.form = "chars" ->
           (LET t == TrimStartChars(v.s)
            IN IF t = <<>> \/ ~IsDigit(Head(t)) THEN -1 ELSE DigitsValue(t, 0))
      [] v.form = "iso" -> v.n
      [] v.form = "locale" -> 1
      [] OTHER -> -1

\* new Date(text).  Text printed by toISOString reads back as the same
\* year; text printed by toLocaleString reads back with a two-digit year
\* taken as 19xx or 20xx.  Whether other text is read as a date is up to
\* the runtime: a lenient one reads lower-cased date text, and any text
\* holding a digit as some date (here one in 2001); a strict one neither.
TwoDigitYear(year) ==
    IF year < 50 THEN 2000 + year ELSE IF year < 100 THEN 1900 + year ELSE year
DateParse(v, lenient) ==
    CASE v.form = "chars" ->
           (IF lenient /\ \E i \in DOMAIN v.s : IsDigit(v.s[i]) THEN 2001 ELSE 0)
      [] v.form = "iso" -> (IF v.cs = "asis" \/ lenient THEN v.n ELSE 0)
      [] v.form = "locale" ->
           (IF v.cs = "asis" \/ lenient THEN TwoDigitYear(v.n) ELSE 0)
      [] OTHER -> 0

\* Date.prototype.toISOString throws a RangeError on an Invalid Date;
\* toLocaleString prints "Invalid Date".
toISOString(year) ==
    IF year = 0 THEN [kind |-> "throw", value |-> PlainObject]
    ELSE [kind |-> "ok", value |-> DateText("iso", year, "asis")]
toLocaleString(year) ==
    IF year = 0 THEN [kind |-> "ok", value |-> DateText("invalid", 0, "asis")]
    ELSE [kind |-> "ok", value |-> DateText("locale", year, "asis")]
DateConverter(op, year) ==
    IF op = "toISOString" THEN toISOString(year) ELSE toLocaleString(year)

\* handleDateTransform(val, converter)
handleDateTransform(val, op, lenient) ==
    IF isDate(val) THEN DateConverter(op, val.n)
    ELSE IF ~isString(val) THEN [kind |-> "ok", value |-> val]
    ELSE LET date == DateParse(val, lenient)
         IN IF date = 0 THEN [kind |-> "ok", value |-> val]
            ELSE DateConverter(op, date)

\* convertNumeric(val, converter)
convertNumeric(val) ==
    IF isString(val) /\ parseNumber(val) # -1 THEN Num(parseNumber(val)) ELSE val

SpecTransforms == {"trim", "toLowerCase", "toUpperCase", "trimStart", "trimEnd",
                   "toISOString", "toLocaleString", "parseInt", "parseFloat"}

\* One step of the reduce in normalize: the switch, inside its try/catch.
ApplyTransform(transformOp, currentValue, lenient) ==
    CASE transformOp = "trim" ->
           (IF isString(currentValue) THEN trim(currentValue) ELSE currentValue)
      [] transformOp = "toLowerCase" ->
           (IF isString(currentValue) THEN toLowerCase(currentValue) ELSE currentValue)
      [] transformOp = "toUpperCase" ->
           (IF isString(currentValue) THEN toUpperCase(currentValue) ELSE currentValue)
      [] transformOp = "trimStart" ->
           (IF isString(currentValue) THEN trimStart(currentValue) ELSE currentValue)
      [] transformOp = "trimEnd" ->
           (IF isString(currentValue) THEN trimEnd(currentValue) ELSE currentValue)
      [] transformOp \in {"toISOString", "toLocaleString"} ->
           (LET res == handleDateTransform(currentValue, transformOp, lenient)
            IN IF res.kind = "throw" THEN currentValue ELSE res.value)
      [] transformOp \in {"parseInt", "parseFloat"} -> convertNumeric(currentValue)
      [] OTHER -> currentValue

\* The accumulators of transforms.reduce(step, value), the initial one first.
RECURSIVE reduceTrace(_, _, _)
reduceTrace(trace, transforms, lenient) ==
    IF transforms = <<>> THEN trace
    ELSE reduceTrace(Append(trace, ApplyTransform(Head(transforms),
                                                  trace[Len(trace)], lenient)),
                     Tail(transforms), lenient)

\* normalize applying the transforms from the last to the first.
normalize_RightToLeft(value, transforms, apply, lenient) ==
    IF ~apply \/ Len(transforms) = 0 THEN <<value>>
    ELSE reduceTrace(<<value>>,
                     [i \in DOMAIN transforms |-> transforms[Len(transforms) + 1 - i]],
                     lenient)

\* normalize(value, transforms, apply): the values the reduce goes through;
\* the last one is what normalize returns.
normalize(value, transforms, apply, lenient) ==
    IF ~apply \/ Len(transforms) = 0 THEN <<value>>
    ELSE reduceTrace(<<value>>, transforms, lenient)
Returned_normalize(trace) == trace[Len(trace)]

\* The raw values a caller hands to the validator.
RawStrings == {Str(s) : s \in SeqsUpTo(Chars, MaxStrLen)}
RawValues ==
    RawStrings
      \cup {Num(7), PlainObject, DateObj(0), DateObj(50), DateObj(2023),
            DateText("iso", 2023, "asis"), DateText("iso", 2023, "lower")}

\* ----------------------------------------------------------------- messages
\* The keys a spec's messages map can hold, and a map: a key is either
\* absent, or present with a text, which may be the empty string.
MsgKeys == {"minLength", "type", "enum", "user.minLength", "user.type", "user.enum"}
Absent == [defined |-> FALSE, text |-> ""]
Present(text) == [defined |-> TRUE, text |-> text]
NoMessages == [k \in MsgKeys |-> Absent]
\* spec.messages?.[key]
Lookup(messages, key) == IF key \in DOMAIN messages THEN messages[key] ELSE Absent
\* if (value): a defined, non-empty string
Truthy(entry) == entry.defined /\ entry.text # ""

\* A violation as the schema engine reports it: the path of the instance,
\* the keyword that failed, and the parameter its built-in template shows.
AjvError(instancePath, keyword, param) ==
    [instancePath |-> instancePath, keyword |-> keyword, param |-> param]

\* `${instancePath.replace(/\//g, '.')}.${keyword}`.replace(/^\./, '')
RECURSIVE DotJoin(_)
DotJoin(segments) ==
    IF segments = <<>> THEN "" ELSE "." \o Head(segments) \o DotJoin(Tail(segments))
PathKey(error) ==
    IF error.instancePath = <<>> THEN error.keyword
    ELSE Head(error.instancePath) \o DotJoin(Tail(error.instancePath))
           \o "." \o error.keyword

\* The switch of getReadableError: the keywords with a built-in template.
BuiltinKeywords == {"type", "required", "minLength", "maxLength", "minimum", "maximum",
                    "format", "uniqueItems", "additionalProperties", "pattern"}
BuiltinMessage(error) ==
    IF error.keyword \in {"uniqueItems", "pattern"} THEN "builtin " \o error.keyword
    ELSE "builtin " \o error.keyword \o " " \o error.param
\* ajv.errorsText([error], {dataVar: ''})
EngineMessage(error) == "engine " \o error.keyword

\* getReadableError preferring the keyword's message to the path's.
getReadableError_KeywordFirst(error, spec) ==
    IF Truthy(Lookup(spec.messages, error.keyword))
    THEN Lookup(spec.messages, error.keyword).text
    ELSE IF Truthy(Lookup(spec.messages, PathKey(error)))
    THEN Lookup(spec.messages, PathKey(error)).text
    ELSE IF error.keyword \in BuiltinKeywords THEN BuiltinMessage(error)
    ELSE EngineMessage(error)

\* getReadableError
getReadableError(error, spec) ==
    LET pathKey == PathKey(error) IN
    IF Truthy(Lookup(spec.messages, pathKey))
    THEN Lookup(spec.messages, pathKey).text
    ELSE IF Truthy(Lookup(spec.messages, error.keyword))
    THEN Lookup(spec.messages, error.keyword).text
    ELSE IF error.keyword \in BuiltinKeywords THEN BuiltinMessage(error)
    ELSE EngineMessage(error)

\* formatErrors: (errors || []).map(err => getReadableError(err, spec))
formatErrors(errors, spec) ==
    [i \in DOMAIN errors |-> getReadableError(errors[i], spec)]

\* ------------------------------------------------------------------ validate
\* A JSON schema of the model: malformed (compile throws), or a type with
\* optional length limits (-1 when absent).
Schema(malformed, type, minLength, maxLength) ==
    [malformed |-> malformed, type |-> type, minLength |-> minLength,
     maxLength |-> maxLength]
\* The specs of the value-object kinds the operations run on.
KindText ==
    [schema |-> Schema(FALSE, "string", 1, MaxStrLen - 1), transform |-> <<"trim">>,
     messages |-> [NoMessages EXCEPT !["minLength"] = Present("Minimum length is 1")]]
KindNumber ==
    [schema |-> Schema(FALSE, "number", -1, -1), transform |-> <<"parseInt">>,
     messages |-> NoMessages]
KindStamp ==
    [schema |-> Schema(FALSE, "string", -1, -1), transform |-> <<"toISOString">>,
     messages |-> NoMessages]
KindBroken ==
    [schema |-> Schema(TRUE, "invalid-type", -1, -1), transform |-> <<"trim">>,
     messages |-> NoMessages]
Kinds == {KindText, KindNumber, KindStamp, KindBroken}

\* Number of digits of a number printed in decimal.
RECURSIVE DigitCount(_)
DigitCount(n) == IF n < 10 THEN 1 ELSE 1 + DigitCount(n \div 10)
\* Length of a string, and of the string a number is coerced to.
DataLength(v) ==
    CASE v.t = "number" -> DigitCount(v.n)
      [] v.form = "chars" -> Len(v.s)
      [] v.form = "iso" -> 24
      [] v.form = "locale" -> 18 + DigitCount(v.n)
      [] OTHER -> 12
\* Whether a string coerces to a number: non-empty and equal to its numeric
\* value (white space around the digits is ignored; blank text is 0).
CoercesToNumber(v) ==
    /\ v.form = "chars" /\ v.s # <<>>
    /\ \A i \in DOMAIN TrimEndChars(TrimStartChars(v.s)) :
         IsDigit(TrimEndChars(TrimStartChars(v.s))[i])

\* validateFn(data) for a compiled schema, with coerceTypes and allErrors:
\* the errors it leaves in validateFn.errors.
AjvErrors(schema, data) ==
    IF schema.type = "string"
    THEN IF data.t \notin {"string", "number"}
         THEN <<AjvError(<<>>, "type", "string")>>
         ELSE (IF schema.minLength >= 0 /\ DataLength(data) < schema.minLength
               THEN <<AjvError(<<>>, "minLength", ToString(schema.minLength))>>
               ELSE <<>>)
                \o (IF schema.maxLength >= 0 /\ DataLength(data) > schema.maxLength
                    THEN <<AjvError(<<>>, "maxLength", ToString(schema.maxLength))>>
                    ELSE <<>>)
    ELSE IF data.t = "number" \/ (data.t = "string" /\ CoercesToNumber(data))
         THEN <<>>
         ELSE <<AjvError(<<>>, "type", "number")>>

\* The one message of the catch branch of validate.
ProcessFailed == "validation process failed"

\* validate letting the exception of ajv.compile out.
validate_NoCatch(value, spec, apply, lenient) ==
    LET normalizedValue == Returned_normalize(normalize(value, spec.transform, apply, lenient))
        errors == AjvErrors(spec.schema, normalizedValue)
    IN IF spec.schema.malformed
       THEN [threw |-> TRUE, valid |-> FALSE, normalized |-> value, errors |-> <<>>]
       ELSE [threw |-> FALSE, valid |-> errors = <<>>, normalized |-> normalizedValue,
             errors |-> formatErrors(errors, spec)]

\* validate(value, spec, options): normalize, compile, check, format - and
\* the catch around them all.
validate(value, spec, apply, lenient) ==
    LET normalizedValue == Returned_normalize(normalize(value, spec.transform, apply, lenient))
        errors == AjvErrors(spec.schema, normalizedValue)
    IN IF spec.schema.malformed
       THEN [threw |-> FALSE, valid |-> FALSE, normalized |-> value,
             errors |-> <<ProcessFailed>>]
       ELSE [threw |-> FALSE, valid |-> errors = <<>>, normalized |-> normalizedValue,
             errors |-> formatErrors(errors, spec)]

\* --------------------------------------------------------------- ValueObject
\* errors.join('; ')
RECURSIVE Join(_)
Join(errors) ==
    IF errors = <<>> THEN ""
    ELSE IF Len(errors) = 1 THEN Head(errors)
    ELSE Head(errors) \o "; " \o Join(Tail(errors))

\* ValueObject.create constructing whatever the validation says.
ValueObject_create_IgnoreVerdict(rawValue, spec, lenient) ==
    LET validation == validate(rawValue, spec, TRUE, lenient)
    IN [kind |-> "ok", err |-> "", constructed |-> TRUE,
        value |-> validation.normalized, validation |-> validation]

\* ValueObject.create constructing from the raw value.
ValueObject_create_FromRaw(rawValue, spec, lenient) ==
    LET validation == validate(rawValue, spec, TRUE, lenient)
    IN IF ~validation.valid
       THEN [kind |-> "fail", err |-> Join(validation.errors), constructed |-> FALSE,
             value |-> rawValue, validation |-> validation]
       ELSE [kind |-> "ok", err |-> "", constructed |-> TRUE,
             value |-> rawValue, validation |-> validation]

\* ValueObject.create(rawValue): validate against the kind's spec, then
\* fail(new Error(errors.join('; '))) or ok(new ConcreteClass(normalized)).
ValueObject_create(rawValue, spec, lenient) ==
    LET validation == validate(rawValue, spec, TRUE, lenient)
    IN IF ~validation.valid
       THEN [kind |-> "fail", err |-> Join(validation.errors), constructed |-> FALSE,
             value |-> rawValue, validation |-> validation]
       ELSE [kind |-> "ok", err |-> "", constructed |-> TRUE,
             value |-> validation.normalized, validation |-> validation]

\* ------------------------------------------------- ValueObject equals / hash
\* The payload of a value object: a primitive, or a plain object whose
\* properties, in insertion order, hold primitives.
PrimPayload(p) == [kind |-> "prim", prim |-> p, props |-> <<>>]
ObjPayload(props) == [kind |-> "object", prim |-> UndefinedP, props |-> props]
Property(key, value) == [key |-> key, value |-> value]
\* A Date object for the instant named by its year: typeof 'object', no own
\* enumerable keys.  An array: the elements under the keys "0", "1", ...
DateP(year) == Prim("date", "none", year, "")
DatePayload(year) == [kind |-> "date", prim |-> DateP(year), props |-> <<>>]
ArrPayload(elems) ==
    [kind |-> "array", prim |-> UndefinedP,
     props |-> [i \in DOMAIN elems |-> Property(ToString(i - 1), elems[i])]]

isPrimitive(payload) == payload.kind = "prim"

\* date.toISOString() and String(array) as text
IsoText(year) == ToString(year) \o "-01-01T00:00:00.000Z"

\* toPrimitive: a primitive as it is; a Date as its ISO text; a plain
\* object's valueOf() is the object itself, so it falls through to
\* String(value).
toPrimitive(payload) ==
    IF isPrimitive(payload) THEN payload.prim
    ELSE IF payload.kind = "date" THEN StrP(IsoText(payload.prim.n))
    ELSE StrP("[object Object]")

\* Object.keys(obj), and obj[key] for an own key
Keys(props) == {props[i].key : i \in DOMAIN props}
Get(props, key) == props[CHOOSE i \in DOMAIN props : props[i].key = key].value

\* The recursive call of deepEqual on two property values or elements:
\* primitives by ===; two Dates are objects that are not arrays and have no
\* own keys, so the key comparison succeeds whatever their instants.
deepEqualNested(x, y) ==
    IF x.type = "date" /\ y.type = "date" THEN TRUE
    ELSE IF x.type = "date" \/ y.type = "date" THEN FALSE
    ELSE StrictEquals(x, y)

\* deepEqual(a, b) of two distinct payloads: primitives by ===, two arrays
\* by length and element by element, any other two objects by the number of
\* keys and, key by key, the values.
deepEqual(a, b) ==
    IF isPrimitive(a) /\ isPrimitive(b) /\ StrictEquals(a.prim, b.prim) THEN TRUE
    ELSE IF isPrimitive(a) \/ isPrimitive(b) THEN FALSE
    ELSE IF a.kind = "array" /\ b.kind = "array"
    THEN /\ Len(a.props) = Len(b.props)
         /\ \A i \in DOMAIN a.props : deepEqualNested(a.props[i].value, b.props[i].value)
    ELSE /\ Len(a.props) = Len(b.props)
         /\ \A key \in Keys(a.props) :
              /\ key \in Keys(b.props)
              /\ deepEqualNested(Get(a.props, key), Get(b.props, key))

\* ValueObject.equals
ValueObject_equals(a, b, same) ==
    IF same THEN TRUE
    ELSE IF isPrimitive(a) THEN primitiveEquals(toPrimitive(a), toPrimitive(b))
    ELSE deepEqual(a, b)

\* JSON.stringify of a property value (a Date by its toJSON), and of a plain
\* object or an array: the properties in insertion order, the elements in
\* index order.
JsonValue(p) ==
    CASE p.type = "string" -> "\"" \o p.s \o "\""
      [] p.type = "date" -> "\"" \o IsoText(p.n) \o "\""
      [] p.type = "number" /\ p.tag \in {"fin", "negzero"} -> TemplateString(p)
      [] p.type = "boolean" -> TemplateString(p)
      [] OTHER -> "null"
RECURSIVE JsonMembers(_, _)
JsonMembers(props, named) ==
    IF props = <<>> THEN ""
    ELSE (IF named THEN "\"" \o Head(props).key \o "\":" ELSE "")
           \o JsonValue(Head(props).value)
           \o (IF Len(props) > 1 THEN "," ELSE "") \o JsonMembers(Tail(props), named)
JsonStringify(payload) ==
    CASE payload.kind = "date" -> JsonValue(payload.prim)
      [] payload.kind = "array" -> "[" \o JsonMembers(payload.props, FALSE) \o "]"
      [] OTHER -> "{" \o JsonMembers(payload.props, TRUE) \o "}"

\* ValueObject.hashCode
ValueObject_hashCode(payload) ==
    IF isPrimitive(payload) THEN primitiveHash(toPrimitive(payload))
    ELSE primitiveHash(StrP(JsonStringify(payload)))

\* The payloads of the model.
PrimitivePayloads ==
    {PrimPayload(p) : p \in {StrP("a"), StrP("[object Object]"), NumP(0), NegZeroP,
                             NumP(1), NaNP, PosInfP, NullP, UndefinedP, BoolP(TRUE),
                             BigIntP(1), SymbolP(1, "s"), SymbolP(2, "s")}}
PropKeys == {"a", "b"}
PropValues == {NumP(1), NaNP, DateP(1), DateP(2)}
ObjectPayloads ==
    {ObjPayload(props) :
       props \in {ps \in SeqsUpTo({Property(k, v) : k \in PropKeys, v \in PropValues},
                                  MaxProps) :
                    \A i, j \in DOMAIN ps : i # j => ps[i].key # ps[j].key}}
ArrayPayloads == {ArrPayload(elems) : elems \in SeqsUpTo(PropValues, MaxProps)}
DatePayloads == {DatePayload(1), DatePayload(2)}

\* ------------------------------------------------------------- idle groups
Slots == {1, 2}
NoEntityOp == [op |-> "none", kind |-> "none", err |-> "none", a |-> 1, b |-> 1,
               rawId |-> "", rawState |-> EmptyState, updater |-> "none",
               before |-> NoEntity, made |-> FALSE, equal |-> FALSE]
\* While another specification runs, a group's variables hold NoOutcome.
IdleEntity == ents = NoOutcome /\ eLast = NoOutcome
IdleNormalize == nIn = NoOutcome /\ nFirst = NoOutcome /\ nSecond = NoOutcome
IdleValidate == vIn = NoOutcome /\ vResult = NoOutcome /\ cResult = NoOutcome
IdleMessages == mIn = NoOutcome /\ mOut = NoOutcome
IdleEquality == qIn = NoOutcome /\ qOut = NoOutcome
IdleCall == fIn = NoOutcome /\ fOut = NoOutcome
IdleTransactions == tmActive = NoOutcome /\ calls = NoOutcome /\ retry = NoOutcome
IdleDomainEvents == de = NoOutcome
IdleCopies == cow = NoOutcome
IdleService == IdleCall /\ IdleTransactions /\ IdleDomainEvents /\ IdleCopies
IdleKernel ==
    /\ IdleEntity /\ IdleNormalize /\ IdleValidate /\ IdleMessages /\ IdleEquality
    /\ IdleService

InitAggregate ==
    /\ \E id \in Ids, s \in States : agg = NewAggregate(id, s, 0, 1)
    /\ arrays = [a \in ArrRefs |-> <<>>]
    /\ view = {}
    /\ last = NoOp
    /\ applied = 0
    /\ uncleared = <<>>

IdleAggregate ==
    /\ agg = NoOutcome /\ arrays = NoOutcome /\ view = NoOutcome /\ last = NoOutcome
    /\ applied = NoOutcome /\ uncleared = NoOutcome
IdleReplay ==
    /\ rInput = NoOutcome /\ rWhole = NoOutcome /\ rAgain = NoOutcome
    /\ rSplit = NoOutcome

Init ==
    /\ InitAggregate
    /\ IdleKernel
    /\ IdleReplay

Next ==
    \/ \E e \in Events : ApplyEvent(e)
    \/ ClearEvents
    \/ UncommittedEvents
    \/ CallerPush
    \/ CallerTruncate
    \/ \E u \in Updaters : Transition(u)
    \/ \E u \in Updaters : UpdateState(u)
    \/ \E ops \in SeqsUpTo(Updaters, MaxPipe) : StatePipe(ops)
    \/ \E u \in Updaters, v \in Validators : SafeUpdate(u, v)

Spec == Init /\ [][Next]_vars

\* ------------------------------------------------------------------ replay
\* Aggregate.replay(id, events)
ReplayWhole ==
    /\ rWhole = NoOutcome
    /\ rWhole' = replay(rInput.id, rInput.events)
    /\ UNCHANGED <<kernelVars, aggVars, rInput, rAgain, rSplit>>

\* Aggregate.replay(id, events), once more
ReplayAgain ==
    /\ rWhole # NoOutcome /\ rAgain = NoOutcome
    /\ rAgain' = replay(rInput.id, rInput.events)
    /\ UNCHANGED <<kernelVars, aggVars, rInput, rWhole, rSplit>>

\* Aggregate.replay(id, events.slice(0, k))
ReplayPrefix ==
    /\ rSplit = NoOutcome
    /\ LET res == replay(rInput.id, SubSeq(rInput.events, 1, rInput.k))
       IN rSplit' = [kind |-> res.kind, err |-> res.err, agg |-> res.agg,
                     invoked |-> res.invoked, pos |-> rInput.k]
    /\ UNCHANGED <<kernelVars, aggVars, rInput, rWhole, rAgain>>

\* result = aggregate.applyEvent(events[pos]) on the replayed aggregate; the
\* caller goes on to the next event only after a Success.
ContinueApply ==
    /\ rSplit # NoOutcome /\ rSplit.kind = "ok"
    /\ rSplit.pos < Len(rInput.events)
    /\ LET event == rInput.events[rSplit.pos + 1]
           res == applyEvent(rSplit.agg.version, rSplit.agg.pending, event)
       IN rSplit' = [kind |-> res.kind, err |-> res.err,
                     agg |-> [rSplit.agg EXCEPT !.version = res.version,
                                                !.pending = res.pending],
                     invoked |-> rSplit.invoked \o res.invoked,
                     pos |-> rSplit.pos + 1]
    /\ UNCHANGED <<kernelVars, aggVars, rInput, rWhole, rAgain>>

InitReplay ==
    /\ InitAggregate
    /\ IdleKernel
    /\ \E id \in Ids, es \in SeqsUpTo(Events, MaxReplay) :
         \E k \in 0..Len(es) : rInput = [id |-> id, events |-> es, k |-> k]
    /\ rWhole = NoOutcome /\ rAgain = NoOutcome /\ rSplit = NoOutcome

NextReplay ==
    \/ ReplayWhole
    \/ ReplayAgain
    \/ ReplayPrefix
    \/ ContinueApply

SpecReplay == InitReplay /\ [][NextReplay]_vars

\* ---------------------------------------------------------------- entities
EntityOp(op, kind, err, a, b) ==
    [NoEntityOp EXCEPT !.op = op, !.kind = kind, !.err = err, !.a = a, !.b = b]

\* ents[slot] = Concrete.create(id, state)
EntCreate(slot, id, state) ==
    /\ LET res == Entity_create(id, state)
       IN /\ ents' = IF res.kind = "ok" THEN [ents EXCEPT ![slot] = res.made] ELSE ents
          /\ eLast' = [EntityOp("create", res.kind, res.err, slot, slot)
                         EXCEPT !.rawId = id, !.rawState = state,
                                !.made = (res.made # NoEntity)]
    /\ UNCHANGED <<aggVars, replayVars, serviceVars, normalizeVars, validateVars, messageVars,
                   equalityVars>>

\* ents[slot] = Concrete.createAggregate(id, state); the id is an ID value
\* object already.
EntCreateAggregate(slot, id, state) ==
    /\ LET res == createAggregate(id, state)
       IN /\ ents' = IF res.kind = "ok" THEN [ents EXCEPT ![slot] = res.made] ELSE ents
          /\ eLast' = [EntityOp("createAggregate", res.kind, res.err, slot, slot)
                         EXCEPT !.rawId = id, !.rawState = state,
                                !.made = (res.made # NoEntity)]
    /\ UNCHANGED <<aggVars, replayVars, serviceVars, normalizeVars, validateVars, messageVars,
                   equalityVars>>

\* ents[slot].applyEvent(event)
EntApplyEvent(slot, event) ==
    /\ ents[slot] # NoEntity
    /\ ents[slot].version < MaxVersion
    /\ LET res == applyEvent(ents[slot].version, ents[slot].pending, event)
       IN /\ ents' = [ents EXCEPT ![slot].version = res.version,
                                  ![slot].pending = res.pending]
          /\ eLast' = EntityOp("applyEvent", res.kind, res.err, slot, slot)
    /\ UNCHANGED <<aggVars, replayVars, serviceVars, normalizeVars, validateVars, messageVars,
                   equalityVars>>

\* ents[b] = ents[a].transition(updater)
EntTransition(a, b, updater) ==
    /\ a # b
    /\ ents[a] # NoEntity
    /\ LET res == Entity_transition(ents[a], updater)
       IN /\ ents' = [ents EXCEPT ![a] = res.receiver,
                                  ![b] = IF res.kind = "ok" THEN res.result ELSE @]
          /\ eLast' = [EntityOp("transition", res.kind, "none", a, b)
                         EXCEPT !.updater = updater, !.before = ents[a],
                                !.made = (res.result # NoEntity)]
    /\ UNCHANGED <<aggVars, replayVars, serviceVars, normalizeVars, validateVars, messageVars,
                   equalityVars>>

\* ents[a].equals(ents[b])
EntEquals(a, b) ==
    /\ ents[a] # NoEntity /\ ents[b] # NoEntity
    /\ eLast' = [EntityOp("equals", "ok", "none", a, b)
                   EXCEPT !.equal = Entity_equals(ents[a], ents[b], a = b)]
    /\ UNCHANGED <<ents, aggVars, replayVars, serviceVars, normalizeVars, validateVars, messageVars,
                   equalityVars>>

InitEntity ==
    /\ IdleAggregate /\ IdleReplay /\ IdleService
    /\ IdleNormalize /\ IdleValidate /\ IdleMessages /\ IdleEquality
    /\ ents = [s \in Slots |-> NoEntity]
    /\ eLast = NoEntityOp

NextEntity ==
    \/ \E slot \in Slots, id \in RawIds, state \in RawStates : EntCreate(slot, id, state)
    \/ \E slot \in Slots, id \in Ids, state \in RawStates :
         EntCreateAggregate(slot, id, state)
    \/ \E slot \in Slots, type \in {"Opened", "Rejected"} :
         EntApplyEvent(slot, [eventType |-> type])
    \/ \E a \in Slots, b \in Slots, u \in EntityUpdaters : EntTransition(a, b, u)
    \/ \E a \in Slots, b \in Slots : EntEquals(a, b)

SpecEntity == InitEntity /\ [][NextEntity]_vars

\* ---------------------------------------------------------------- normalize
\* first = validator.normalize(value, transforms, apply)
Normalize ==
    /\ nFirst = NoOutcome
    /\ LET trace == normalize(nIn.value, nIn.transforms, nIn.apply, nIn.lenient)
       IN nFirst' = [kind |-> "done", value |-> Returned_normalize(trace),
                     trace |-> trace]
    /\ UNCHANGED <<aggVars, replayVars, serviceVars, entityVars, validateVars, messageVars,
                   equalityVars, nIn, nSecond>>

\* second = validator.normalize(first, transforms, apply)
NormalizeAgain ==
    /\ nFirst # NoOutcome /\ nSecond = NoOutcome
    /\ LET trace == normalize(nFirst.value, nIn.transforms, nIn.apply, nIn.lenient)
       IN nSecond' = [kind |-> "done", value |-> Returned_normalize(trace),
                      trace |-> trace]
    /\ UNCHANGED <<aggVars, replayVars, serviceVars, entityVars, validateVars, messageVars,
                   equalityVars, nIn, nFirst>>

InitNormalize ==
    /\ IdleAggregate /\ IdleReplay /\ IdleService /\ IdleEntity /\ IdleValidate /\ IdleMessages
    /\ IdleEquality
    /\ \E value \in RawValues, transforms \in SeqsUpTo(SpecTransforms, MaxTransforms),
          apply \in BOOLEAN, lenient \in BOOLEAN :
         nIn = [value |-> value, transforms |-> transforms, apply |-> apply,
                lenient |-> lenient]
    /\ nFirst = NoOutcome /\ nSecond = NoOutcome

NextNormalize ==
    \/ Normalize
    \/ NormalizeAgain

SpecNormalize == InitNormalize /\ [][NextNormalize]_vars

\* ----------------------------------------------------------------- validate
\* result = validator.validate(value, spec, {applyTransformations})
Validate ==
    /\ vResult = NoOutcome
    /\ LET res == validate(vIn.value, vIn.spec, vIn.apply, vIn.lenient)
       IN vResult' = [kind |-> IF res.threw THEN "throw" ELSE "done",
                      valid |-> res.valid, normalized |-> res.normalized,
                      errors |-> res.errors]
    /\ UNCHANGED <<aggVars, replayVars, serviceVars, entityVars, normalizeVars, messageVars,
                   equalityVars, vIn, cResult>>

\* result = Kind.create(value)
Create ==
    /\ cResult = NoOutcome
    /\ cResult' = ValueObject_create(vIn.value, vIn.spec, vIn.lenient)
    /\ UNCHANGED <<aggVars, replayVars, serviceVars, entityVars, normalizeVars, messageVars,
                   equalityVars, vIn, vResult>>

InitValidate ==
    /\ IdleAggregate /\ IdleReplay /\ IdleService /\ IdleEntity /\ IdleNormalize /\ IdleMessages
    /\ IdleEquality
    /\ \E value \in RawValues, spec \in Kinds, apply \in BOOLEAN, lenient \in BOOLEAN :
         vIn = [value |-> value, spec |-> spec, apply |-> apply, lenient |-> lenient]
    /\ vResult = NoOutcome /\ cResult = NoOutcome

NextValidate ==
    \/ Validate
    \/ Create

SpecValueObject == InitValidate /\ [][NextValidate]_vars

\* ----------------------------------------------------------------- messages
\* messages = formatErrors(errors, spec)
FormatErrors ==
    /\ mOut = NoOutcome
    /\ mOut' = [kind |-> "done",
                messages |-> formatErrors(mIn.errors, [messages |-> mIn.messages])]
    /\ UNCHANGED <<aggVars, replayVars, serviceVars, entityVars, normalizeVars, validateVars,
                   equalityVars, mIn>>

\* The violations a validation can report.
ErrorSamples ==
    {AjvError(path, keyword, "3") :
       path \in {<<>>, <<"user">>}, keyword \in {"minLength", "type", "enum"}}

InitMessages ==
    /\ IdleAggregate /\ IdleReplay /\ IdleService /\ IdleEntity /\ IdleNormalize /\ IdleValidate
    /\ IdleEquality
    /\ \E errors \in SeqsUpTo(ErrorSamples, MaxErrors),
          messages \in [MsgKeys -> {Absent, Present(""), Present("custom")}] :
         mIn = [errors |-> errors,
                messages |-> [k \in MsgKeys |->
                                IF messages[k] = Present("custom")
                                THEN Present("custom " \o k) ELSE messages[k]]]
    /\ mOut = NoOutcome

NextMessages == FormatErrors

SpecMessages == InitMessages /\ [][NextMessages]_vars

\* ----------------------------------------------------------------- equality
\* a.equals(a), a.equals(b), b.equals(a) for two value objects a and b
Equals ==
    /\ qOut = NoOutcome
    /\ qOut' = [kind |-> "equals",
                aa |-> ValueObject_equals(qIn.a, qIn.a, TRUE),
                ab |-> ValueObject_equals(qIn.a, qIn.b, FALSE),
                ba |-> ValueObject_equals(qIn.b, qIn.a, FALSE),
                hashA |-> "", hashB |-> ""]
    /\ UNCHANGED <<aggVars, replayVars, serviceVars, entityVars, normalizeVars, validateVars,
                   messageVars, qIn>>

\* a.hashCode(), b.hashCode()
HashCodes ==
    /\ qOut # NoOutcome /\ qOut.kind = "equals"
    /\ qOut' = [qOut EXCEPT !.kind = "hashed",
                            !.hashA = ValueObject_hashCode(qIn.a),
                            !.hashB = ValueObject_hashCode(qIn.b)]
    /\ UNCHANGED <<aggVars, replayVars, serviceVars, entityVars, normalizeVars, validateVars,
                   messageVars, qIn>>

\* Two value objects of one kind: both payloads primitive, both plain
\* objects, both arrays or both Dates.
InitEquality ==
    /\ IdleAggregate /\ IdleReplay /\ IdleService /\ IdleEntity /\ IdleNormalize /\ IdleValidate
    /\ IdleMessages
    /\ \/ \E a \in PrimitivePayloads, b \in PrimitivePayloads : qIn = [a |-> a, b |-> b]
       \/ \E a \in ObjectPayloads, b \in ObjectPayloads : qIn = [a |-> a, b |-> b]
       \/ \E a \in ArrayPayloads, b \in ArrayPayloads : qIn = [a |-> a, b |-> b]
       \/ \E a \in DatePayloads, b \in DatePayloads : qIn = [a |-> a, b |-> b]
    /\ qOut = NoOutcome

NextEquality ==
    \/ Equals
    \/ HashCodes

SpecEquality == InitEquality /\ [][NextEquality]_vars

\* ------------------------------------------------------------------ claims
\* What the handler the aggregate defines for an event does, read off the
\* class: "missing" when there is no method for the event's type tag.
HandlerOutcome(event) ==
    IF ("on" \o event.eventType) \notin Methods THEN "missing"
    ELSE HandlerBody("on" \o event.eventType).kind
HandlerError(event) == HandlerBody("on" \o event.eventType).err

\* C1: when the handler resolved for the event returns a Failure, applyEvent
\* returns a Failure carrying that same error, and the aggregate's state,
\* version and pending-event list are what they were before the call.
C1_HandlerFailureIsAllOrNothing ==
    [][(last'.op = "applyEvent" /\ HandlerOutcome(last'.event) = "fail")
         => /\ last'.kind = "fail"
            /\ last'.err = HandlerError(last'.event)
            /\ agg' = agg
            /\ Pending' = Pending]_vars

C1_Witness ==
    /\ last.op = "applyEvent" /\ last.kind = "fail" /\ last.err = "rejected"
    /\ agg.version = 2 /\ Len(Pending) = 2

\* C2: when the handler resolved for the event succeeds, applyEvent appends
\* exactly that event to the end of the pending-event list, increases
\* version by exactly 1 and returns Success carrying the aggregate itself.
C2_SuccessAppendsAndBumps ==
    [][(last'.op = "applyEvent" /\ HandlerOutcome(last'.event) = "ok")
         => /\ last'.kind = "ok" /\ ~last'.fresh
            /\ Pending' = Append(Pending, last'.event)
            /\ agg' = [agg EXCEPT !.version = agg.version + 1]]_vars

C2_Witness ==
    /\ last.op = "applyEvent" /\ last.kind = "ok"
    /\ agg.version = 2 /\ Len(Pending) = 2 /\ Pending[1] # Pending[2]
    /\ Pending[2] = last.event

\* C3: applyEvent for an event whose type tag X has no method onX returns a
\* Failure (no event handler for X) and leaves state, version and pending
\* events unchanged.
C3_MissingHandlerFails ==
    [][(last'.op = "applyEvent" /\ HandlerOutcome(last'.event) = "missing")
         => /\ last'.kind = "fail"
            /\ last'.err = "No event handler for " \o last'.event.eventType
            /\ agg' = agg
            /\ Pending' = Pending]_vars

C3_Witness ==
    /\ last.op = "applyEvent" /\ last.event.eventType = "Unknown"
    /\ last.kind = "fail" /\ agg.version = 1 /\ Len(Pending) = 1

\* C4: after any sequence of public operations on an aggregate created at
\* version 0, the version of the resulting aggregate equals the number of
\* applyEvent calls that returned Success since creation.
C4_VersionCountsSuccessfulApplications == agg.version = applied

\* C5: the pending-event list holds every event successfully applied since
\* the last clearEvents, in application order; no operation other than
\* clearEvents yields an aggregate from which such an event is missing.
C5_PendingHoldsEveryUnclearedEvent == Pending = uncleared

\* C8: applyEvent returns a Result for every event and every handler
\* behaviour; no exception crosses its boundary.
C8_ApplyEventNeverThrows == last.op = "applyEvent" => last.kind \in {"ok", "fail"}

\* C9: clearEvents empties the pending-event list and changes nothing else:
\* version, identity and state are the same after the call as before it.
C9_ClearEventsOnlyEmptiesPending ==
    [][last'.op = "clearEvents"
         => /\ Pending' = <<>>
            /\ agg'.version = agg.version
            /\ agg'.id = agg.id
            /\ agg'.state = agg.state
            /\ ~last'.fresh]_vars

C9_Witness ==
    /\ last.op = "clearEvents" /\ applied = 3
    /\ agg.version = 3 /\ Len(Pending) = 0

\* C10: the list read through uncommittedEvents is the pending events in
\* application order, and nothing the caller does to that list changes the
\* aggregate's own pending events: on one and the same instance they change
\* only through applyEvent and clearEvents.
C10_PendingEventsAreReadOnly ==
    /\ [](last.op = "uncommittedEvents" => \A v \in view : arrays[v] = Pending)
    /\ [][/\ last'.op \in {"callerPush", "callerTruncate"}
               => (agg' = agg /\ Pending' = Pending)
          /\ (Pending' # Pending /\ ~last'.fresh)
               => last'.op \in {"applyEvent", "clearEvents"}]_vars

C10_Witness ==
    /\ last.op = "callerPush" /\ Len(Pending) = 2
    /\ \E v \in view : arrays[v] = Append(Pending, ForeignEvent)

\* The index of the first event of a list whose application does not
\* succeed, 0 if every application succeeds.
FirstFailing(events) ==
    LET bad == {i \in 1..Len(events) : HandlerOutcome(events[i]) # "ok"}
    IN IF bad = {} THEN 0 ELSE Min(bad)

\* C6: replay starts from a fresh version-0 aggregate with no pending events
\* and applies the events in order; at the first event whose application
\* fails it returns that Failure, applies no later event and exposes no
\* aggregate; if every application succeeds it returns Success with an
\* aggregate whose version is the number of events.
C6_ReplayShortCircuits ==
    rWhole # NoOutcome =>
      LET events == rInput.events
          i == FirstFailing(events)
      IN IF i = 0
         THEN /\ rWhole.kind = "ok"
              /\ rWhole.agg = [id |-> rInput.id, state |-> EmptyState,
                               version |-> Len(events), pending |-> events]
              /\ rWhole.invoked = events
         ELSE /\ rWhole.kind # "ok"
              /\ HandlerOutcome(events[i]) = "fail"
                   => rWhole.kind = "fail" /\ rWhole.err = HandlerError(events[i])
              /\ HandlerOutcome(events[i]) = "missing"
                   => /\ rWhole.kind = "fail"
                      /\ rWhole.err = "No event handler for " \o events[i].eventType
              /\ rWhole.agg = NoAggregate
              /\ Len(rWhole.invoked) <= i
              /\ rWhole.invoked = SubSeq(events, 1, Len(rWhole.invoked))

C6_Witness ==
    /\ rWhole # NoOutcome /\ rWhole.kind = "fail" /\ rWhole.err = "rejected"
    /\ Len(rInput.events) = 3 /\ FirstFailing(rInput.events) = 2
    /\ HandlerOutcome(rInput.events[3]) = "ok"

\* C7: for every event list and split point k, replaying events[0..k] and
\* then applying events[k..] one at a time gives the same outcome (Success
\* or Failure, state, version) as replaying the whole list, and two replays
\* of the same list for the same id agree on state and version.
SplitFinished ==
    /\ rSplit # NoOutcome
    /\ rSplit.kind # "ok" \/ rSplit.pos = Len(rInput.events)

C11_EqualityIsByIdentityAlone ==
    eLast.op = "equals" => (eLast.equal <=> ents[eLast.a].id = ents[eLast.b].id)
\* Two instances with the same id and different state, version and pending
\* events were compared and found equal.
C11_Witness ==
    /\ eLast.op = "equals" /\ eLast.equal /\ eLast.a # eLast.b
    /\ ents[eLast.a].state # ents[eLast.b].state
    /\ ents[eLast.a].version # ents[eLast.b].version
    /\ ents[eLast.a].pending # ents[eLast.b].pending

C13_FactoriesValidateIdAndState ==
    (eLast.op \in {"create", "createAggregate"}
       /\ (eLast.rawId = "" \/ eLast.rawState < 0))
      => /\ eLast.kind = "fail"
         /\ ~eLast.made
         /\ (eLast.rawId = "" => eLast.err = "invalid id")
         /\ (eLast.rawId # "" => eLast.err = "invalid state")

\* What a transform expects of the value it is applied to, and what it makes
\* of a value of that shape.
StringKinds == {"trim", "toLowerCase", "toUpperCase", "trimStart", "trimEnd"}
DateKinds == {"toISOString", "toLocaleString"}
NumericKinds == {"parseInt", "parseFloat"}
ShapeMatches(op, v) ==
    CASE op \in StringKinds -> v.t = "string"
      [] op \in DateKinds ->
           \/ v.t = "date"
           \/ v.t = "string" /\ DateParse(v, nIn.lenient) # 0
      [] op \in NumericKinds -> v.t = "string" /\ parseNumber(v) # -1
Throws(op, v) == op = "toISOString" /\ v.t = "date" /\ v.n = 0
Converted(op, v) ==
    CASE op = "trim" -> trim(v)
      [] op = "trimStart" -> trimStart(v)
      [] op = "trimEnd" -> trimEnd(v)
      [] op = "toLowerCase" -> toLowerCase(v)
      [] op = "toUpperCase" -> toUpperCase(v)
      [] op \in DateKinds ->
           DateConverter(op, IF v.t = "date" THEN v.n ELSE DateParse(v, nIn.lenient)).value
      [] op \in NumericKinds -> Num(parseNumber(v))

\* C17: normalize returns the raw value when transformations are disabled or
\* the list is empty; otherwise step i applies the i-th declared transform
\* to the output of step i-1, and a step whose transform does not fit the
\* shape of the current value, or throws, leaves the value as it is.
C17_NormalizeAppliesTransformsInOrder ==
    nFirst # NoOutcome =>
      IF ~nIn.apply \/ nIn.transforms = <<>>
      THEN nFirst.value = nIn.value
      ELSE /\ Len(nFirst.trace) = Len(nIn.transforms) + 1
           /\ nFirst.trace[1] = nIn.value
           /\ nFirst.value = nFirst.trace[Len(nFirst.trace)]
           /\ \A i \in DOMAIN nIn.transforms :
                LET op == nIn.transforms[i]
                    v == nFirst.trace[i]
                IN nFirst.trace[i + 1]
                     = IF ShapeMatches(op, v) /\ ~Throws(op, v)
                       THEN Converted(op, v) ELSE v
\* Two transforms whose order matters were applied to a string, and the
\* result is neither the raw value nor what the reverse order gives.
C17_Witness ==
    /\ nFirst # NoOutcome /\ nIn.apply
    /\ nIn.transforms = <<"trim", "parseInt">>
    /\ nIn.value = Str(<<" ", "7">>)
    /\ nFirst.value = Num(7)

\* C18 (as stated): normalizing an already normalized value with the same
\* transform list changes nothing, for every list of the defined kinds.
C18_NormalizeIsIdempotent ==
    nSecond # NoOutcome => nSecond.value = nFirst.value

\* C18 (amended): normalizing an already normalized value with the same
\* transform list changes nothing, for every list built from the string and
\* numeric kinds (trim, trimStart, trimEnd, toLowerCase, toUpperCase,
\* parseInt, parseFloat).
C18_NormalizeIsIdempotentWithoutDateKinds ==
    (nSecond # NoOutcome
       /\ \A i \in DOMAIN nIn.transforms : nIn.transforms[i] \notin DateKinds)
      => nSecond.value = nFirst.value
\* A list of string and numeric kinds changed its input, and a second pass
\* left the result alone.
C18_Witness ==
    /\ nSecond # NoOutcome /\ nIn.apply
    /\ Len(nIn.transforms) = MaxTransforms
    /\ \A i \in DOMAIN nIn.transforms : nIn.transforms[i] \notin DateKinds
    /\ nFirst.value # nIn.value
    /\ nSecond.value = nFirst.value

\* The verdict of the validation engine on the raw value handed to create
\* (create validates with transformations enabled).
EngineVerdict == validate(vIn.value, vIn.spec, TRUE, vIn.lenient)

\* C14: when the kind's spec rejects the raw value, create returns a Failure
\* whose error text is the engine's messages joined, of which there is at
\* least one, and constructs no instance.
C14_CreateRejectsInvalidInput ==
    (cResult # NoOutcome /\ ~EngineVerdict.valid)
      => /\ cResult.kind = "fail"
         /\ ~cResult.constructed
         /\ EngineVerdict.errors # <<>>
         /\ \A i \in DOMAIN EngineVerdict.errors : EngineVerdict.errors[i] # ""
         /\ cResult.err = Join(EngineVerdict.errors)
         /\ cResult.err # ""
\* Blank text was handed to the text kind, whose spec trims and asks for a
\* minimum length: create failed with the spec's own message.
C14_Witness ==
    /\ cResult # NoOutcome /\ vIn.spec = KindText
    /\ vIn.value = Str(<<" ", " ">>)
    /\ cResult.kind = "fail" /\ cResult.err = "Minimum length is 1"

\* C15: when the kind's spec accepts the raw value, create returns Success
\* with a value object whose value is the engine's normalized output.
C15_CreateKeepsNormalizedValue ==
    (cResult # NoOutcome /\ EngineVerdict.valid)
      => /\ cResult.kind = "ok"
         /\ cResult.constructed
         /\ cResult.value
              = Returned_normalize(normalize(vIn.value, vIn.spec.transform, TRUE,
                                             vIn.lenient))
\* Text with a leading blank was handed to the text kind: the value object
\* holds the trimmed text, not the raw one.
C15_Witness ==
    /\ cResult # NoOutcome /\ vIn.spec = KindText
    /\ vIn.value = Str(<<" ", "a">>)
    /\ cResult.kind = "ok" /\ cResult.value = Str(<<"a">>)

\* C16: validate returns a result and does not throw; valid is true exactly
\* when the error list is empty; a schema that cannot be compiled gives
\* valid = false with the one generic error.
C16_ValidateNeverThrows ==
    vResult # NoOutcome
      => /\ vResult.kind = "done"
         /\ vResult.valid <=> vResult.errors = <<>>
         /\ vIn.spec.schema.malformed
              => ~vResult.valid /\ vResult.errors = <<ProcessFailed>>
\* A value was validated against a malformed schema.
C16_Witness ==
    /\ vResult # NoOutcome /\ vIn.spec.schema.malformed
    /\ ~vResult.valid /\ Len(vResult.errors) = 1

\* The message the claim's precedence picks for a violation, a custom
\* message counting when `counts` says so.
PickMessage(error, counts(_)) ==
    IF counts(Lookup(mIn.messages, PathKey(error)))
    THEN Lookup(mIn.messages, PathKey(error)).text
    ELSE IF counts(Lookup(mIn.messages, error.keyword))
    THEN Lookup(mIn.messages, error.keyword).text
    ELSE IF error.keyword \in BuiltinKeywords THEN BuiltinMessage(error)
    ELSE EngineMessage(error)
IsDefined(entry) == entry.defined

\* C19 (as stated): one message per violation, the first that is defined of:
\* the custom message for path and keyword, the custom message for the
\* keyword, the built-in template, the engine's message.
C19_MessagePrecedence ==
    mOut # NoOutcome
      => /\ Len(mOut.messages) = Len(mIn.errors)
         /\ \A i \in DOMAIN mIn.errors :
              mOut.messages[i] = PickMessage(mIn.errors[i], IsDefined)

\* C19 (amended): one message per violation, the first that is defined and
\* not the empty string of: the custom message for path and keyword, the
\* custom message for the keyword; failing those the built-in template, or
\* the engine's message for a keyword that has none.
C19_MessagePrecedenceAmongNonEmpty ==
    mOut # NoOutcome
      => /\ Len(mOut.messages) = Len(mIn.errors)
         /\ \A i \in DOMAIN mIn.errors :
              mOut.messages[i] = PickMessage(mIn.errors[i], Truthy)
\* A violation under a path had both custom messages, and got the one for
\* its path; another, with no custom message and no template, got the
\* engine's.
C19_Witness ==
    /\ mOut # NoOutcome /\ Len(mIn.errors) = MaxErrors
    /\ \E i \in DOMAIN mIn.errors :
         /\ mIn.errors[i].instancePath # <<>>
         /\ Truthy(Lookup(mIn.messages, PathKey(mIn.errors[i])))
         /\ Truthy(Lookup(mIn.messages, mIn.errors[i].keyword))
         /\ mOut.messages[i] = Lookup(mIn.messages, PathKey(mIn.errors[i])).text
    /\ \E i \in DOMAIN mIn.errors : mOut.messages[i] = EngineMessage(mIn.errors[i])

\* C20: a value object equals itself, a.equals(b) is b.equals(a), and equal
\* value objects have equal hash codes.
C20_EqualsIsConsistentWithHash ==
    qOut # NoOutcome
      => /\ qOut.aa
         /\ qOut.ab <=> qOut.ba
         /\ (qOut.kind = "hashed" /\ qOut.ab) => qOut.hashA = qOut.hashB

\* ------------------------------------------------------- primitiveCompare

\* typeOrder[getTypeName(value)]
typeOrder(type) ==
    CASE type = "null" -> 0
      [] type = "string" -> 1
      [] type = "number" -> 2
      [] type = "boolean" -> 3
      [] type = "symbol" -> 4
      [] type = "bigint" -> 5
      [] type = "undefined" -> 6

\* a.localeCompare(b) for the texts of the model, listed in the order of the
\* default collation: the empty text first, a lower-case letter before its
\* upper-case form, punctuation before letters.
Collation ==
    <<"", "a", "A", "b", "Symbol(a)", "Symbol(anonymous)", "Symbol(s)">>
localeCompare(x, y) ==
    LET at(t) == CHOOSE i \in DOMAIN Collation : Collation[i] = t
    IN  IF at(x) = at(y) THEN 0 ELSE IF at(x) < at(y) THEN -1 ELSE 1

\* case 'number' of primitiveCompare
compareNumbers_NaNLeast(a, b) ==
    IF a.tag = "nan" /\ b.tag = "nan" THEN 0
    ELSE IF a.tag = "nan" THEN -1
    ELSE IF b.tag = "nan" THEN 1
    ELSE IF a.tag = "pinf" /\ b.tag = "pinf" THEN 0
    ELSE IF a.tag = "pinf" THEN 1
    ELSE IF b.tag = "pinf" THEN -1
    ELSE IF a.tag = "ninf" /\ b.tag = "ninf" THEN 0
    ELSE IF a.tag = "ninf" THEN -1
    ELSE IF b.tag = "ninf" THEN 1
    ELSE IF a.n = b.n THEN 0 ELSE IF a.n < b.n THEN -1 ELSE 1
compareNumbers(a, b) ==
    IF a.tag = "nan" /\ b.tag = "nan" THEN 0
    ELSE IF a.tag = "nan" THEN 1
    ELSE IF b.tag = "nan" THEN -1
    ELSE IF a.tag = "pinf" /\ b.tag = "pinf" THEN 0
    ELSE IF a.tag = "pinf" THEN 1
    ELSE IF b.tag = "pinf" THEN -1
    ELSE IF a.tag = "ninf" /\ b.tag = "ninf" THEN 0
    ELSE IF a.tag = "ninf" THEN -1
    ELSE IF b.tag = "ninf" THEN 1
    ELSE IF a.n = b.n THEN 0 ELSE IF a.n < b.n THEN -1 ELSE 1

\* primitiveCompare
primitiveCompare(a, b) ==
    IF a.type # b.type
    THEN (IF typeOrder(a.type) < typeOrder(b.type) THEN -1 ELSE 1)
    ELSE CASE a.type = "string" -> localeCompare(a.s, b.s)
           [] a.type = "number" -> compareNumbers(a, b)
           [] a.type = "boolean" -> (IF a = b THEN 0 ELSE IF a.n = 1 THEN 1 ELSE -1)
           [] a.type = "symbol" -> localeCompare(primitiveHash(a), primitiveHash(b))
           [] a.type = "bigint" -> (IF a.n = b.n THEN 0 ELSE IF a.n < b.n THEN -1 ELSE 1)
           [] OTHER -> 0

\* The primitives handed to primitiveCompare.
ComparedPrimitives ==
    {NullP, UndefinedP, StrP(""), StrP("a"), StrP("A"), StrP("b"),
     NumP(-1), NumP(0), NegZeroP, NumP(1), NaNP, PosInfP, NegInfP,
     BoolP(FALSE), BoolP(TRUE), BigIntP(1), BigIntP(2),
     SymbolP(1, "s"), SymbolP(2, "s"), SymbolP(3, "a"), SymbolP(4, "")}

\* primitiveCompare on every pair of three primitives
Compare ==
    /\ fOut = NoOutcome
    /\ fOut' = [ab |-> primitiveCompare(fIn.a, fIn.b),
                ba |-> primitiveCompare(fIn.b, fIn.a),
                bc |-> primitiveCompare(fIn.b, fIn.c),
                ac |-> primitiveCompare(fIn.a, fIn.c)]
    /\ UNCHANGED <<aggVars, replayVars, entityVars, normalizeVars, validateVars,
                   messageVars, equalityVars, txVars, de, cow, fIn>>

InitCompare ==
    /\ IdleAggregate /\ IdleReplay /\ IdleEntity /\ IdleNormalize /\ IdleValidate
    /\ IdleMessages /\ IdleEquality /\ IdleTransactions /\ IdleDomainEvents /\ IdleCopies
    /\ \E a \in ComparedPrimitives, b \in ComparedPrimitives, c \in ComparedPrimitives :
         fIn = [a |-> a, b |-> b, c |-> c]
    /\ fOut = NoOutcome

NextCompare == Compare

SpecCompare == InitCompare /\ [][NextCompare]_vars

\* --------------------------------------------------- ValueObject.map, pipe

\* A payload is a number or a reference into a heap of objects; an object
\* has a number n, possibly a nested object (inner, 0 for none) and the
\* mark Object.freeze leaves on it.
PNum(n) == [ref |-> 0, n |-> n]
PRef(ref) == [ref |-> ref, n |-> 0]
HeapObject(n, inner, frozen) == [n |-> n, inner |-> inner, frozen |-> frozen]

\* The mapper functions a caller passes: inc and double compute a new value
\* (for an object, a copy {...v, n: ...} that shares the nested object);
\* stamp and touch assign in place, to v.n and to v.inner.n, and return
\* their argument.  An assignment to a property of a frozen object throws a
\* TypeError in strict code.
Mappers == {"inc", "double", "stamp", "touch"}
PureMappers == {"inc", "double"}
Arith(f, n) == IF f = "inc" THEN (n + 1) % (MaxState + 1) ELSE (2 * n) % (MaxState + 1)
RunMapper(f, heap, v) ==
    IF v.ref = 0
    THEN [kind |-> "ok", heap |-> heap, value |-> PNum(Arith(f, v.n))]
    ELSE LET obj == heap[v.ref]
         IN  CASE f \in PureMappers ->
                    [kind |-> "ok",
                     heap |-> Append(heap, HeapObject(Arith(f, obj.n), obj.inner, FALSE)),
                     value |-> PRef(Len(heap) + 1)]
               [] f = "stamp" ->
                    IF obj.frozen THEN [kind |-> "throw", heap |-> heap, value |-> v]
                    ELSE [kind |-> "ok", heap |-> [heap EXCEPT ![v.ref].n = 0],
                          value |-> v]
               [] f = "touch" ->
                    IF obj.inner = 0 \/ heap[obj.inner].frozen
                    THEN [kind |-> "throw", heap |-> heap, value |-> v]
                    ELSE [kind |-> "ok",
                          heap |-> [heap EXCEPT ![obj.inner].n = Arith("inc", @)],
                          value |-> v]

\* new Constructor(value): this._value = Object.freeze(value), which freezes
\* the object itself and not the objects it refers to.  Instances are
\* numbered in the order of their construction.
ValueObject_new(heap, value, serial) ==
    [kind |-> "ok",
     heap |-> IF value.ref = 0 THEN heap ELSE [heap EXCEPT ![value.ref].frozen = TRUE],
     vo |-> [serial |-> serial, value |-> value]]

\* (x) => fn(...f1(x)): the functions in list order, each on the result of
\* the one before; a throw ends the call.
RECURSIVE pipeline(_, _, _)
pipeline(fns, heap, v) ==
    IF fns = <<>> THEN [kind |-> "ok", heap |-> heap, value |-> v]
    ELSE LET r == RunMapper(Head(fns), heap, v)
         IN  IF r.kind = "throw" THEN r ELSE pipeline(Tail(fns), r.heap, r.value)

\* ValueObject.map(mapper): new Constructor(mapper(this._value))
ValueObject_map(heap, self, mapper) ==
    LET r == RunMapper(mapper, heap, self.value)
    IN  IF r.kind = "throw" THEN [kind |-> "throw", heap |-> r.heap, vo |-> self]
        ELSE ValueObject_new(r.heap, r.value, self.serial + 1)

\* ValueObject.pipe(...fns)
ValueObject_pipe(heap, self, fns) ==
    IF fns = <<>> THEN [kind |-> "ok", heap |-> heap, vo |-> self]
    ELSE LET r == pipeline(fns, heap, self.value)
         IN  IF r.kind = "throw" THEN [kind |-> "throw", heap |-> r.heap, vo |-> self]
             ELSE ValueObject_new(r.heap, r.value, self.serial + 1)

\* self.map(f1).map(f2)...map(fn), as a caller writes it
RECURSIVE MapChain(_, _, _)
MapChain(heap, self, fns) ==
    IF fns = <<>> THEN [kind |-> "ok", heap |-> heap, vo |-> self]
    ELSE LET r == ValueObject_map(heap, self, Head(fns))
         IN  IF r.kind = "throw" THEN r ELSE MapChain(r.heap, r.vo, Tail(fns))

\* What a reader sees of a payload: the number, or the object's n and its
\* nested object's n.
Seen(heap, v) ==
    IF v.ref = 0 THEN <<v.n>>
    ELSE <<heap[v.ref].n, IF heap[v.ref].inner = 0 THEN -1 ELSE heap[heap[v.ref].inner].n>>

\* self.pipe(...fns) and self.map(f1)...map(fn), each from the same heap
Pipe ==
    /\ fOut = NoOutcome
    /\ fOut' = [pipe |-> ValueObject_pipe(fIn.heap, fIn.self, fIn.fns),
                chain |-> MapChain(fIn.heap, fIn.self, fIn.fns)]
    /\ UNCHANGED <<aggVars, replayVars, entityVars, normalizeVars, validateVars,
                   messageVars, equalityVars, txVars, de, cow, fIn>>

\* A value object of a numeric kind, or of a structured kind: an object
\* with or without a nested object, constructed over an unfrozen payload.
InitPipe ==
    /\ IdleAggregate /\ IdleReplay /\ IdleEntity /\ IdleNormalize /\ IdleValidate
    /\ IdleMessages /\ IdleEquality /\ IdleTransactions /\ IdleDomainEvents /\ IdleCopies
    /\ \/ \E n \in States, fns \in SeqsUpTo(PureMappers, MaxPipe) :
            fIn = [heap |-> <<>>, self |-> [serial |-> 1, value |-> PNum(n)],
                   fns |-> fns]
       \/ \E n \in States, m \in States, inner \in {0, 1},
             fns \in SeqsUpTo(Mappers, MaxPipe) :
            LET made == ValueObject_new(<<HeapObject(m, 0, FALSE),
                                          HeapObject(n, inner, FALSE)>>, PRef(2), 1)
            IN  fIn = [heap |-> made.heap, self |-> made.vo, fns |-> fns]
    /\ fOut = NoOutcome

NextPipe == Pipe

SpecPipe == InitPipe /\ [][NextPipe]_vars

\* ------------------------------------------------------------------ Result

\* ok(value), fail(error)
ok(value) == [kind |-> "success", value |-> value, error |-> "none"]
fail(error) == [kind |-> "error", value |-> 0, error |-> error]
isOk(result) == result.kind = "success"

\* The functions a caller passes: a value function (inc, double), an error
\* function (wrap) and fallible steps, of which reject and halt always fail.
Steps == {"inc", "reject", "halt"}
RunStep(step, value) ==
    IF step = "inc" THEN ok(Arith("inc", value))
    ELSE fail(IF step = "reject" THEN "rejected" ELSE "halted")
RunErrorFn(error) == "wrapped " \o error

\* ResultMethods.map, mapError and flatMap: what is returned, and the
\* functions invoked on the way.
ResultMethods_map(result, fn) ==
    IF isOk(result)
    THEN [result |-> ok(Arith(fn, result.value)), invoked |-> <<fn>>]
    ELSE [result |-> fail(result.error), invoked |-> <<>>]
ResultMethods_mapError(result, fn) ==
    IF ~isOk(result)
    THEN [result |-> fail(RunErrorFn(result.error)), invoked |-> <<fn>>]
    ELSE [result |-> ok(result.value), invoked |-> <<>>]
ResultMethods_flatMap_Eager(result, fn) ==
    IF isOk(result)
    THEN [result |-> RunStep(fn, result.value), invoked |-> <<fn>>]
    ELSE [result |-> fail(result.error), invoked |-> <<fn>>]
ResultMethods_flatMap(result, fn) ==
    IF isOk(result)
    THEN [result |-> RunStep(fn, result.value), invoked |-> <<fn>>]
    ELSE [result |-> fail(result.error), invoked |-> <<>>]

\* The methods of the classes: Ok.map, Ok.flatMap, Err.map, Err.flatMap
Result_map(result, fn) ==
    IF isOk(result)
    THEN [result |-> ok(Arith(fn, result.value)), invoked |-> <<fn>>]
    ELSE [result |-> result, invoked |-> <<>>]
Result_flatMap(result, fn) ==
    IF isOk(result)
    THEN [result |-> RunStep(fn, result.value), invoked |-> <<fn>>]
    ELSE [result |-> result, invoked |-> <<>>]

\* start.flatMap(s1).flatMap(s2)..., in either style
RECURSIVE FlatMapChain(_, _, _)
FlatMapChain(style, done, steps) ==
    IF steps = <<>> THEN done
    ELSE LET r == IF style = "class" THEN Result_flatMap(done.result, Head(steps))
                  ELSE ResultMethods_flatMap(done.result, Head(steps))
         IN  FlatMapChain(style, [result |-> r.result,
                                  invoked |-> done.invoked \o r.invoked], Tail(steps))

\* map, mapError and flatMap on one Result, and a chain of flatMap steps
CallResultMethods ==
    /\ fOut = NoOutcome
    /\ fOut' = [map |-> IF fIn.style = "class" THEN Result_map(fIn.result, fIn.fn)
                        ELSE ResultMethods_map(fIn.result, fIn.fn),
                mapError |-> ResultMethods_mapError(fIn.result, "wrap"),
                flatMap |-> IF fIn.style = "class"
                            THEN Result_flatMap(fIn.result, fIn.steps[1])
                            ELSE ResultMethods_flatMap(fIn.result, fIn.steps[1]),
                chain |-> FlatMapChain(fIn.style,
                                       [result |-> fIn.result, invoked |-> <<>>],
                                       fIn.steps)]
    /\ UNCHANGED <<aggVars, replayVars, entityVars, normalizeVars, validateVars,
                   messageVars, equalityVars, txVars, de, cow, fIn>>

InitResult ==
    /\ IdleAggregate /\ IdleReplay /\ IdleEntity /\ IdleNormalize /\ IdleValidate
    /\ IdleMessages /\ IdleEquality /\ IdleTransactions /\ IdleDomainEvents /\ IdleCopies
    /\ \E style \in {"class", "methods"},
          result \in {ok(n) : n \in States} \cup {fail("rejected"), fail("boom")},
          fn \in PureMappers,
          steps \in SeqsUpTo(Steps, MaxPipe + 1) \ {<<>>} :
         fIn = [style |-> style, result |-> result, fn |-> fn, steps |-> steps]
    /\ fOut = NoOutcome

NextResult == CallResultMethods

SpecResult == InitResult /\ [][NextResult]_vars

\* ----------------------------------------------------- transaction manager

\* The callers of one manager, and the Symbol('tx') made for a caller's
\* call and for the retry wrapper's attempts: each symbol is unique.
Callers == {1, 2}
TxOf(c) == <<"call", c>>
TxOfAttempt(attempt) == <<"attempt", attempt>>

\* What an operation or callback does when it finishes: return a value,
\* return a Result (withTransaction only), throw an Error or throw
\* something that is no Error.
Outcomes(method) ==
    IF method = "execute" THEN {"value", "throwError", "throwText"}
    ELSE {"returnOk", "returnErr", "throwError", "throwText"}

\* The try/catch of execute and withTransaction: ok(result) or the
\* callback's own Result; a thrown Error as it is, anything else as
\* new Error(String(error)).  The operation's errors name the attempt.
Settled(outcome, attempt) ==
    CASE outcome \in {"value", "returnOk"} -> ok(0)
      [] outcome = "returnErr" -> fail("callback error " \o ToString(attempt))
      [] outcome = "throwError" -> fail("failed " \o ToString(attempt))
      [] outcome = "throwText" -> fail("oops " \o ToString(attempt))

IdleCaller == [pc |-> "idle", method |-> "none", result |-> NoOutcome]

\* manager.execute(operation) and manager.withTransaction(callback) up to
\* their await: the transaction is registered.
StartCall(c, method) ==
    /\ calls[c].pc = "idle"
    /\ tmActive' = tmActive \cup {TxOf(c)}
    /\ calls' = [calls EXCEPT ![c] = [pc |-> "running", method |-> method,
                                       result |-> NoOutcome]]
    /\ UNCHANGED <<aggVars, replayVars, entityVars, normalizeVars, validateVars,
                   messageVars, equalityVars, callVars, de, cow, retry>>

\* The operation settles: the result is built and the finally block removes
\* the transaction.
SettleCall_NoFinally(c) ==
    /\ calls[c].pc = "running"
    /\ \E outcome \in Outcomes(calls[c].method) :
         /\ calls' = [calls EXCEPT ![c].pc = "settled",
                                    ![c].result = Settled(outcome, 1)]
         /\ tmActive' = IF outcome \in {"throwError", "throwText"} THEN tmActive
                         ELSE tmActive \ {TxOf(c)}
    /\ UNCHANGED <<aggVars, replayVars, entityVars, normalizeVars, validateVars,
                   messageVars, equalityVars, callVars, de, cow, retry>>
SettleCall(c) ==
    /\ calls[c].pc = "running"
    /\ \E outcome \in Outcomes(calls[c].method) :
         calls' = [calls EXCEPT ![c].pc = "settled",
                                ![c].result = Settled(outcome, 1)]
    /\ tmActive' = tmActive \ {TxOf(c)}
    /\ UNCHANGED <<aggVars, replayVars, entityVars, normalizeVars, validateVars,
                   messageVars, equalityVars, callVars, de, cow, retry>>

\* getActiveTransactionCount()
getActiveTransactionCount == Cardinality(tmActive)

\* withRetry(manager, maxRetries).execute(operation): the loop condition,
MayAttempt_OneFewer(attempt, maxRetries) == attempt < maxRetries
MayAttempt(attempt, maxRetries) == attempt <= maxRetries

\* the call,
RetryExecute(maxRetries) ==
    /\ retry.pc = "idle"
    /\ retry' = [retry EXCEPT !.pc = "loop", !.maxRetries = maxRetries]
    /\ UNCHANGED <<aggVars, replayVars, entityVars, normalizeVars, validateVars,
                   messageVars, equalityVars, callVars, de, cow, tmActive, calls>>

\* attempt++ and manager.execute(operation) up to its await,
RetryAttempt ==
    /\ retry.pc = "loop" /\ MayAttempt(retry.attempt, retry.maxRetries)
    /\ retry' = [retry EXCEPT !.pc = "awaiting", !.attempt = @ + 1]
    /\ tmActive' = tmActive \cup {TxOfAttempt(retry.attempt + 1)}
    /\ UNCHANGED <<aggVars, replayVars, entityVars, normalizeVars, validateVars,
                   messageVars, equalityVars, callVars, de, cow, calls>>

\* the attempt settles: a success is returned, a failure is remembered,
RetrySettle ==
    /\ retry.pc = "awaiting"
    /\ \E outcome \in Outcomes("execute") :
         LET result == Settled(outcome, retry.attempt)
         IN  retry' = [retry EXCEPT
                         !.pc = IF isOk(result) THEN "returned" ELSE "loop",
                         !.result = IF isOk(result) THEN result ELSE @,
                         !.lastError = IF isOk(result) THEN @ ELSE result.error,
                         !.log = Append(@, result)]
    /\ tmActive' = tmActive \ {TxOfAttempt(retry.attempt)}
    /\ UNCHANGED <<aggVars, replayVars, entityVars, normalizeVars, validateVars,
                   messageVars, equalityVars, callVars, de, cow, calls>>

\* and the return after the loop: err(lastError || new Error(...)).
RetryGiveUp ==
    /\ retry.pc = "loop" /\ ~MayAttempt(retry.attempt, retry.maxRetries)
    /\ retry' = [retry EXCEPT
                    !.pc = "returned",
                    !.result = fail(IF retry.lastError = "" THEN "Transaction failed"
                                    ELSE retry.lastError)]
    /\ UNCHANGED <<aggVars, replayVars, entityVars, normalizeVars, validateVars,
                   messageVars, equalityVars, callVars, de, cow, tmActive, calls>>

InitTransactions ==
    /\ IdleAggregate /\ IdleReplay /\ IdleEntity /\ IdleNormalize /\ IdleValidate
    /\ IdleMessages /\ IdleEquality /\ IdleCall /\ IdleDomainEvents /\ IdleCopies
    /\ tmActive = {}
    /\ calls = [c \in Callers |-> IdleCaller]
    /\ retry = [pc |-> "idle", maxRetries |-> 0, attempt |-> 0, lastError |-> "",
                result |-> NoOutcome, log |-> <<>>]

NextTransactions ==
    \/ \E c \in Callers, method \in {"execute", "withTransaction"} : StartCall(c, method)
    \/ \E c \in Callers : SettleCall(c)
    \/ \E maxRetries \in 0..MaxRetries : RetryExecute(maxRetries)
    \/ RetryAttempt
    \/ RetrySettle
    \/ RetryGiveUp

SpecTransactions == InitTransactions /\ [][NextTransactions]_vars

\* --------------------------------------------------- PasswordPolicyService

\* A password is a sequence of characters.  \d, [A-Z], [a-z] and [\W_] on
\* the characters of the model.
PasswordDigits == {"1"}
PasswordUppers == {"A"}
PasswordLowers == {"a", "d", "e", "i", "l", "m", "n", "o", "p", "q", "r",
                   "s", "t", "w", "y", "c"}
PasswordSpecials == {"!"}
Has(password, class) == \E i \in DOMAIN password : password[i] \in class

\* err({code, message, details}): the code and the details
PolicyError(code, details) == fail([code |-> code, details |-> details])

\* checkLength
checkLength(config, password) ==
    IF Len(password) < config.minLength
    THEN PolicyError("PASSWORD_TOO_SHORT",
                     <<config.minLength, Len(password)>>)
    ELSE IF Len(password) > config.maxLength
    THEN PolicyError("PASSWORD_TOO_LONG", <<config.maxLength, Len(password)>>)
    ELSE ok(0)

\* checkCharacterTypes: the first missing character type
checkCharacterTypes(config, password) ==
    IF config.requireDigit /\ ~Has(password, PasswordDigits)
    THEN PolicyError("PASSWORD_MISSING_DIGIT", <<>>)
    ELSE IF config.requireUppercase /\ ~Has(password, PasswordUppers)
    THEN PolicyError("PASSWORD_MISSING_UPPERCASE", <<>>)
    ELSE IF config.requireLowercase /\ ~Has(password, PasswordLowers)
    THEN PolicyError("PASSWORD_MISSING_LOWERCASE", <<>>)
    ELSE IF config.requireSpecialChar /\ ~Has(password, PasswordSpecials)
    THEN PolicyError("PASSWORD_MISSING_SPECIAL_CHAR", <<>>)
    ELSE ok(0)

\* checkConsecutiveRepeats: the loop stops at the first index i (from 0)
\* that ends a run of more than maxConsecutiveRepeats identical characters.
checkConsecutiveRepeats(config, password) ==
    LET max == config.maxConsecutiveRepeats
        ends == {j \in DOMAIN password :
                   /\ j > max
                   /\ \A k \in (j - max)..j : password[k] = password[j]}
    IN  IF max <= 0 \/ ends = {} THEN ok(0)
        ELSE LET j == CHOOSE e \in ends : \A o \in ends : e <= o
             IN  PolicyError("PASSWORD_CONSECUTIVE_REPEATS", <<max, password[j], j - 1>>)

\* checkCommonPasswords: COMMON_PASSWORDS.has(password.toLowerCase())
COMMON_PASSWORDS ==
    {<<"p", "a", "s", "s", "w", "o", "r", "d">>, <<"1", "2", "3", "4", "5", "6">>,
     <<"q", "w", "e", "r", "t", "y">>, <<"a", "d", "m", "i", "n">>,
     <<"w", "e", "l", "c", "o", "m", "e">>}
checkCommonPasswords(config, password) ==
    LET lowered == [i \in DOMAIN password |->
                      IF password[i] = "A" THEN "a" ELSE password[i]]
    IN  IF config.disallowCommonPasswords /\ lowered \in COMMON_PASSWORDS
        THEN PolicyError("PASSWORD_TOO_COMMON", <<TRUE>>)
        ELSE ok(0)

\* The methods of the kernel's Ok and Err objects, and result.isError?.():
\* the call when the method exists, undefined (falsy) when it does not.
ResultMethodNames == {"isOk", "isFail", "unwrap", "unwrapErr", "map", "flatMap"}
OptionalIsError(result) ==
    IF "isError" \in ResultMethodNames THEN ~isOk(result) ELSE FALSE

\* PasswordPolicyService.validate: validations.find(...) || ok(undefined)
PasswordPolicy_validate(config, password) ==
    LET validations == <<checkLength(config, password),
                         checkCharacterTypes(config, password),
                         checkConsecutiveRepeats(config, password),
                         checkCommonPasswords(config, password)>>
        found == {i \in DOMAIN validations : OptionalIsError(validations[i])}
    IN  IF found = {} THEN ok(0)
        ELSE validations[CHOOSE i \in found : \A j \in found : i <= j]

\* policy.validate(password)
ValidatePassword ==
    /\ fOut = NoOutcome
    /\ fOut' = [result |-> PasswordPolicy_validate(fIn.config, fIn.password)]
    /\ UNCHANGED <<aggVars, replayVars, entityVars, normalizeVars, validateVars,
                   messageVars, equalityVars, txVars, de, cow, fIn>>

\* A policy and a password: every short text over a letter, a capital, a
\* digit and a special character, and two spellings of a common password.
InitPolicy ==
    /\ IdleAggregate /\ IdleReplay /\ IdleEntity /\ IdleNormalize /\ IdleValidate
    /\ IdleMessages /\ IdleEquality /\ IdleTransactions /\ IdleDomainEvents /\ IdleCopies
    /\ \E minLength \in {0, 2}, maxLength \in {2, 5}, digit \in BOOLEAN,
          upper \in BOOLEAN, lower \in BOOLEAN, special \in BOOLEAN,
          repeats \in {0, 1, 2}, common \in BOOLEAN,
          password \in SeqsUpTo({"a", "A", "1", "!"}, MaxStrLen + 1)
                         \cup {<<"a", "d", "m", "i", "n">>, <<"A", "d", "m", "i", "n">>} :
         fIn = [config |-> [minLength |-> minLength, maxLength |-> maxLength,
                            requireDigit |-> digit, requireUppercase |-> upper,
                            requireLowercase |-> lower, requireSpecialChar |-> special,
                            maxConsecutiveRepeats |-> repeats,
                            disallowCommonPasswords |-> common],
                password |-> password]
    /\ fOut = NoOutcome

NextPolicy == ValidatePassword

SpecPolicy == InitPolicy /\ [][NextPolicy]_vars

\* ------------------------------------------- AggregateRoot.domainEvents

\* The aggregate's _domainEvents array (events) and the array the caller
\* holds after reading the domainEvents getter: held says whether that is
\* the aggregate's current array ("current"), an array clearEvents has
\* replaced ("stale", its contents in old) or none yet ("none").  added is
\* the history of addDomainEvent calls since the last clearEvents.
DomainEventNames == {"e1", "e2"}

\* get domainEvents(): return this._domainEvents
DomainEventsRead ==
    /\ de' = [de EXCEPT !.held = "current"]
    /\ UNCHANGED <<aggVars, replayVars, entityVars, normalizeVars, validateVars,
                   messageVars, equalityVars, callVars, txVars, cow>>

\* addDomainEvent(event): this._domainEvents.push(event)
DomainEventsAdd(event) ==
    /\ Len(de.events) < MaxReplay /\ Len(de.added) < MaxReplay
    /\ de' = [de EXCEPT !.events = Append(@, event), !.added = Append(@, event)]
    /\ UNCHANGED <<aggVars, replayVars, entityVars, normalizeVars, validateVars,
                   messageVars, equalityVars, callVars, txVars, cow>>

\* clearEvents(): this._domainEvents = [], a new array
DomainEventsClear ==
    /\ de' = [events |-> <<>>, added |-> <<>>,
               held |-> IF de.held = "current" THEN "stale" ELSE de.held,
               old |-> IF de.held = "current" THEN de.events ELSE de.old]
    /\ UNCHANGED <<aggVars, replayVars, entityVars, normalizeVars, validateVars,
                   messageVars, equalityVars, callVars, txVars, cow>>

\* Code outside the aggregate uses the array it read: list.push(event)
OutsidePush(event) ==
    /\ de.held # "none"
    /\ Len(IF de.held = "current" THEN de.events ELSE de.old) < MaxReplay
    /\ de' = IF de.held = "current" THEN [de EXCEPT !.events = Append(@, event)]
              ELSE [de EXCEPT !.old = Append(@, event)]
    /\ UNCHANGED <<aggVars, replayVars, entityVars, normalizeVars, validateVars,
                   messageVars, equalityVars, callVars, txVars, cow>>

\* and list.length = 0
OutsideTruncate ==
    /\ de.held # "none"
    /\ de' = IF de.held = "current" THEN [de EXCEPT !.events = <<>>]
              ELSE [de EXCEPT !.old = <<>>]
    /\ UNCHANGED <<aggVars, replayVars, entityVars, normalizeVars, validateVars,
                   messageVars, equalityVars, callVars, txVars, cow>>

InitDomainEvents ==
    /\ IdleAggregate /\ IdleReplay /\ IdleEntity /\ IdleNormalize /\ IdleValidate
    /\ IdleMessages /\ IdleEquality /\ IdleCall /\ IdleTransactions /\ IdleCopies
    /\ de = [events |-> <<>>, added |-> <<>>, held |-> "none", old |-> <<>>]

NextDomainEvents ==
    \/ DomainEventsRead
    \/ \E event \in DomainEventNames : DomainEventsAdd(event)
    \/ DomainEventsClear
    \/ \E event \in DomainEventNames : OutsidePush(event)
    \/ OutsideTruncate

SpecDomainEvents == InitDomainEvents /\ [][NextDomainEvents]_vars

\* ------------------------------------------ copies of an aggregate

\* The instances made so far (insts; an instance's pendingEvents array is
\* pend[i], the array of its own number), the instance the caller holds as
\* the receiver (1) and the one a copying operation returned (result, 0
\* while there is none), and the last operation.
CopyOf(handle) == IF handle = "receiver" THEN 1 ELSE cow.result
CopyOperations ==
    [op : {"updateState"}, updater : Updaters, operations : {<<>>},
     validator : {"any"}]
      \cup [op : {"statePipe"}, updater : {"bump"},
            operations : SeqsUpTo(Updaters, MaxPipe), validator : {"any"}]
      \cup [op : {"safeUpdate"}, updater : Updaters, operations : {<<>>},
            validator : Validators]

\* receiver.updateState(u), receiver.statePipe(...ops) or
\* receiver.safeUpdate(u, v): a constructor call makes the instance of the
\* next number, with an empty pendingEvents array of its own.
CopyAggregate(call) ==
    /\ cow.result = 0 /\ cow.last.op # "copy"
    /\ LET self == cow.insts[1]
           fresh == Len(cow.insts) + 1
           made == CASE call.op = "updateState" ->
                          [kind |-> "ok", agg |-> updateState(self, call.updater, fresh)]
                     [] call.op = "statePipe" ->
                          [kind |-> "ok",
                           agg |-> statePipe(self, call.operations, fresh)]
                     [] call.op = "safeUpdate" ->
                          safeUpdate(self, call.updater, call.validator, fresh)
           isNew == made.kind = "ok" /\ made.agg.pendingEvents = fresh
       IN  cow' = [cow EXCEPT
                     !.insts = IF isNew THEN Append(@, made.agg) ELSE @,
                     !.pend = IF isNew THEN Append(@, <<>>) ELSE @,
                     !.result = IF made.kind = "ok" THEN made.agg.pendingEvents ELSE 0,
                     !.last = [op |-> "copy", handle |-> "receiver", call |-> call,
                               kind |-> made.kind]]
    /\ UNCHANGED <<aggVars, replayVars, entityVars, normalizeVars, validateVars,
                   messageVars, equalityVars, callVars, txVars, de>>

\* handle.applyEvent(event)
CopyApplyEvent(handle, event) ==
    /\ CopyOf(handle) # 0 /\ cow.steps < MaxPipe
    /\ LET i == CopyOf(handle)
           r == applyEvent(cow.insts[i].version, cow.pend[i], event)
       IN  cow' = [cow EXCEPT !.insts[i].version = r.version,
                              !.pend[i] = r.pending,
                              !.steps = @ + 1,
                              !.last = [op |-> "apply", handle |-> handle,
                                        call |-> event, kind |-> r.kind]]
    /\ UNCHANGED <<aggVars, replayVars, entityVars, normalizeVars, validateVars,
                   messageVars, equalityVars, callVars, txVars, de>>

\* handle.clearEvents()
CopyClearEvents(handle) ==
    /\ CopyOf(handle) # 0 /\ cow.steps < MaxPipe
    /\ LET i == CopyOf(handle)
           r == clearEvents(cow.insts[i].version)
       IN  cow' = [cow EXCEPT !.insts[i].version = r.version,
                              !.pend[i] = r.pending,
                              !.steps = @ + 1,
                              !.last = [op |-> "clear", handle |-> handle,
                                        call |-> "none", kind |-> "ok"]]
    /\ UNCHANGED <<aggVars, replayVars, entityVars, normalizeVars, validateVars,
                   messageVars, equalityVars, callVars, txVars, de>>

\* An aggregate that has applied some events.
InitCopies ==
    /\ IdleAggregate /\ IdleReplay /\ IdleEntity /\ IdleNormalize /\ IdleValidate
    /\ IdleMessages /\ IdleEquality /\ IdleCall /\ IdleTransactions /\ IdleDomainEvents
    /\ \E id \in Ids, state \in States,
          pending \in SeqsUpTo({[eventType |-> "Opened"], [eventType |-> "Credited"]}, 1),
          cleared \in 0..1 :
         cow = [insts |-> <<NewAggregate(id, state, Len(pending) + cleared, 1)>>,
                pend |-> <<pending>>, result |-> 0, steps |-> 0,
                last |-> [op |-> "none", handle |-> "receiver", call |-> "none",
                          kind |-> "ok"]]

NextCopies ==
    \/ \E call \in CopyOperations : CopyAggregate(call)
    \/ \E handle \in {"receiver", "result"}, event \in Events :
         CopyApplyEvent(handle, event)
    \/ \E handle \in {"receiver", "result"} : CopyClearEvents(handle)

SpecCopies == InitCopies /\ [][NextCopies]_vars

\* ------------------------------------------ event processing pipeline

\* What a handler does with an event: return ok(undefined), return a
\* Failure, throw an Error, or throw a value that is not an Error.
HandlerBehaviours == {"succeeds", "fails", "throwsError", "throwsText"}
EventHandlers(does) == [i \in 1..Len(does) |-> [name |-> i, does |-> does[i]]]

isFail(result) == result.kind = "error"

\* safeApplyHandler(handler)(event): the handler's Result, a throw caught
\* and returned as fail(error), a thrown non-Error wrapped in new Error.
safeApplyHandler(handler, event) ==
    CASE handler.does = "succeeds" -> ok("undefined")
      [] handler.does = "fails" ->
           fail([by |-> handler.name, event |-> event, message |-> "returned"])
      [] handler.does = "throwsError" ->
           fail([by |-> handler.name, event |-> event, message |-> "thrown"])
      [] handler.does = "throwsText" ->
           fail([by |-> handler.name, event |-> event, message |-> "String(thrown)"])

\* The loop body running the handler whatever the result so far.
PipelineStep_NoFailCheck(handler, event, sofar) ==
    [result |-> safeApplyHandler(handler, event),
     invoked |-> Append(sofar.invoked, handler.name)]

\* The body of the loop: once the result is a Failure the pipeline returns
\* it, and no further handler runs.
PipelineStep(handler, event, sofar) ==
    IF isFail(sofar.result) THEN sofar
    ELSE [result |-> safeApplyHandler(handler, event),
          invoked |-> Append(sofar.invoked, handler.name)]

RECURSIVE PipelineLoop(_, _, _)
PipelineLoop(handlers, event, sofar) ==
    IF handlers = <<>> THEN sofar
    ELSE PipelineLoop(Tail(handlers), event, PipelineStep(Head(handlers), event, sofar))

\* eventProcessingPipeline(...handlers)(event): the result returned and, in
\* order, the handlers that were invoked.
eventProcessingPipeline(handlers, event) ==
    PipelineLoop(handlers, event, [result |-> ok("undefined"), invoked |-> <<>>])

ProcessEvent ==
    /\ fOut = NoOutcome
    /\ fOut' = eventProcessingPipeline(fIn.handlers, fIn.event)
    /\ UNCHANGED <<aggVars, replayVars, entityVars, normalizeVars, validateVars,
                   messageVars, equalityVars, txVars, de, cow, fIn>>

InitPipeline ==
    /\ IdleAggregate /\ IdleReplay /\ IdleEntity /\ IdleNormalize /\ IdleValidate
    /\ IdleMessages /\ IdleEquality /\ IdleTransactions /\ IdleDomainEvents /\ IdleCopies
    /\ \E does \in SeqsUpTo(HandlerBehaviours, MaxReplay), event \in DomainEventNames :
         fIn = [handlers |-> EventHandlers(does), event |-> event]
    /\ fOut = NoOutcome

NextPipeline == ProcessEvent

SpecPipeline == InitPipeline /\ [][NextPipeline]_vars

\* Equality of two payloads by value: the same shape, the same keys (the
\* same length, for arrays) and, for every primitive, property or element,
\* the same value, with NaN equal to NaN, +0 equal to -0 and two Dates
\* equal when they are the same instant.
Canon(x) == IF x = NegZeroP THEN NumP(0) ELSE x
PayloadsEqual(a, b) ==
    /\ a.kind = b.kind
    /\ Canon(a.prim) = Canon(b.prim)
    /\ Len(a.props) = Len(b.props)
    /\ Keys(a.props) = Keys(b.props)
    /\ \A key \in Keys(a.props) : Canon(Get(a.props, key)) = Canon(Get(b.props, key))

\* C21: two value objects of the same kind are equal if and only if their
\* payloads are equal: primitive payloads by value, NaN equal to NaN and +0
\* equal to -0; structured payloads by deep equality of keys, values and
\* array elements.
C21_EqualsIffPayloadsEqual ==
    qOut # NoOutcome => (qOut.ab <=> PayloadsEqual(qIn.a, qIn.b))

\* The order of the primitive kinds, and the order of two numbers: NaN above
\* every other number, +Infinity above and -Infinity below the finite ones.
KindOrder == <<"null", "string", "number", "boolean", "symbol", "bigint", "undefined">>
KindRank(p) == CHOOSE i \in DOMAIN KindOrder : KindOrder[i] = p.type
NumberRank(p) ==
    CASE p.tag = "nan" -> 3 [] p.tag = "pinf" -> 2 [] p.tag = "ninf" -> 0 [] OTHER -> 1

\* C22: primitiveCompare orders values of different kinds by kind, null <
\* string < number < boolean < symbol < bigint < undefined; numbers by value
\* with NaN greatest, +Infinity above and -Infinity below every finite
\* number; compare(a, b) has the opposite sign of compare(b, a), and the
\* order is transitive.
C22_PrimitiveCompareIsTotalOrder ==
    fOut # NoOutcome =>
      LET a == fIn.a  b == fIn.b
      IN  /\ fOut.ab \in {-1, 0, 1}
          /\ fOut.ab = -fOut.ba
          /\ (fOut.ab <= 0 /\ fOut.bc <= 0) => fOut.ac <= 0
          /\ a.type # b.type => (fOut.ab = -1 <=> KindRank(a) < KindRank(b))
          /\ (a.type = "number" /\ b.type = "number") =>
               /\ NumberRank(a) < NumberRank(b) => fOut.ab = -1
               /\ NumberRank(a) > NumberRank(b) => fOut.ab = 1
               /\ (NumberRank(a) = 1 /\ NumberRank(b) = 1) =>
                    fOut.ab = (IF a.n < b.n THEN -1 ELSE IF a.n > b.n THEN 1 ELSE 0)
          /\ (a.type = b.type /\ a.type \in {"boolean", "bigint"}) =>
               fOut.ab = (IF a.n < b.n THEN -1 ELSE IF a.n > b.n THEN 1 ELSE 0)
C22_Witness ==
    /\ fOut # NoOutcome /\ fIn.a = NaNP /\ fIn.b = PosInfP /\ fIn.c = UndefinedP
    /\ fOut.ab = 1 /\ fOut.bc = -1

\* C23: pipe(f1, ..., fn) gives the same result as map(f1) ... map(fn) in
\* list order, returns the very same instance for an empty list, and never
\* changes the value of the instance it was called on.
C23_PipeIsMapChain ==
    fOut # NoOutcome =>
      /\ fOut.pipe.kind = fOut.chain.kind
      /\ fOut.pipe.kind = "ok" =>
           Seen(fOut.pipe.heap, fOut.pipe.vo.value)
             = Seen(fOut.chain.heap, fOut.chain.vo.value)
      /\ fIn.fns = <<>> => fOut.pipe.vo = fIn.self
      /\ Seen(fOut.pipe.heap, fIn.self.value) = Seen(fIn.heap, fIn.self.value)

\* The steps that fail, and the first of a list that does (0 for none).
FailingSteps == {"reject", "halt"}
FirstFailingStep(steps) ==
    IF \E i \in DOMAIN steps : steps[i] \in FailingSteps
    THEN CHOOSE i \in DOMAIN steps :
           /\ steps[i] \in FailingSteps
           /\ \A j \in 1..(i - 1) : steps[j] \notin FailingSteps
    ELSE 0

\* C24: on a Failure, map and flatMap return a Failure with the same error
\* and invoke nothing; on a Success, mapError returns a Success with the
\* same value and invokes nothing, and flatMap returns the function's
\* Result; a chain of flatMap steps stops at the first Failure and runs no
\* later step.
C24_ResultMethodsShortCircuit ==
    fOut # NoOutcome =>
      LET r == fIn.result
          k == FirstFailingStep(fIn.steps)
      IN  /\ ~isOk(r) =>
               /\ fOut.map = [result |-> fail(r.error), invoked |-> <<>>]
               /\ fOut.flatMap = [result |-> fail(r.error), invoked |-> <<>>]
               /\ fOut.chain = [result |-> fail(r.error), invoked |-> <<>>]
          /\ isOk(r) =>
               /\ fOut.mapError = [result |-> ok(r.value), invoked |-> <<>>]
               /\ fOut.flatMap.result = RunStep(fIn.steps[1], r.value)
               /\ fOut.flatMap.invoked = <<fIn.steps[1]>>
               /\ k = 0 => isOk(fOut.chain.result) /\ fOut.chain.invoked = fIn.steps
               /\ k > 0 =>
                    /\ fOut.chain.result = RunStep(fIn.steps[k], 0)
                    /\ fOut.chain.invoked = SubSeq(fIn.steps, 1, k)
C24_Witness ==
    /\ fOut # NoOutcome /\ isOk(fIn.result)
    /\ fIn.steps = <<"inc", "reject", "inc">>
    /\ fOut.chain = [result |-> fail("rejected"), invoked |-> <<"inc", "reject">>]

\* C25: withRetry(manager, maxRetries).execute runs the operation at most
\* maxRetries+1 times, returns the first success without running it again,
\* and when every attempt fails returns, after exactly maxRetries+1
\* attempts, a Failure carrying the error of the last attempt.
C25_RetryRunsAtMostMaxRetriesPlusOne ==
    /\ retry.attempt <= retry.maxRetries + 1
    /\ Len(retry.log) <= retry.attempt
    /\ retry.pc = "returned" =>
         /\ Len(retry.log) = retry.attempt
         /\ \A i \in 1..(retry.attempt - 1) : ~isOk(retry.log[i])
         /\ isOk(retry.result) => retry.result = retry.log[retry.attempt]
         /\ ~isOk(retry.result) =>
              /\ retry.attempt = retry.maxRetries + 1
              /\ retry.result = retry.log[retry.attempt]
C25_Witness ==
    /\ retry.pc = "returned" /\ retry.maxRetries = 2 /\ retry.attempt = 3
    /\ retry.result = fail("oops 3") /\ retry.log[1] = fail("failed 1")

\* C26: getActiveTransactionCount equals the number of execute and
\* withTransaction calls that have started and not settled, whatever the
\* interleaving and however each operation ended; it is 0 when no call is
\* in flight.
C26_ActiveCountIsCallsInFlight ==
    /\ tmActive = {TxOf(c) : c \in {d \in Callers : calls[d].pc = "running"}}
                   \cup (IF retry.pc = "awaiting"
                         THEN {TxOfAttempt(retry.attempt)} ELSE {})
    /\ getActiveTransactionCount
         = Cardinality({c \in Callers : calls[c].pc = "running"})
             + (IF retry.pc = "awaiting" THEN 1 ELSE 0)
C26_Witness ==
    /\ getActiveTransactionCount = 1
    /\ calls[1].pc = "settled" /\ calls[1].result = fail("failed 1")
    /\ calls[2].pc = "running" /\ calls[2].method = "withTransaction"

\* The Failure of the first violated rule, in the order length, character
\* types, consecutive repeats, common passwords; Success when there is none.
FirstViolation(config, password) ==
    LET rules == <<checkLength(config, password),
                   checkCharacterTypes(config, password),
                   checkConsecutiveRepeats(config, password),
                   checkCommonPasswords(config, password)>>
        violated == {i \in DOMAIN rules : ~isOk(rules[i])}
    IN  IF violated = {} THEN ok(0)
        ELSE rules[CHOOSE i \in violated : \A j \in violated : i <= j]

\* C27: PasswordPolicyService.validate returns Success only if the password
\* violates no configured rule, and otherwise the Failure of the first
\* violated rule in the order length, character types, consecutive repeats,
\* common passwords; a password shorter than minLength yields
\* PASSWORD_TOO_SHORT with minLength and the actual length.
C27_ValidateReturnsFirstViolation ==
    fOut # NoOutcome =>
      LET expected == FirstViolation(fIn.config, fIn.password)
      IN  /\ fOut.result.kind = expected.kind
          /\ ~isOk(expected) => fOut.result.error = expected.error
          /\ Len(fIn.password) < fIn.config.minLength =>
               /\ ~isOk(fOut.result)
               /\ fOut.result.error
                    = [code |-> "PASSWORD_TOO_SHORT",
                       details |-> <<fIn.config.minLength, Len(fIn.password)>>]

\* C28: the list read through domainEvents always equals the events added
\* by addDomainEvent since the last clearEvents, in order of addition; code
\* outside the aggregate cannot add to, remove from or reorder it through
\* the value the getter returns.
C28_DomainEventsAreReadOnly == de.events = de.added

\* What a copying operation must have done when it returns, and what an
\* applyEvent or clearEvents on one of the two aggregates must leave alone.
CopyLeavesReceiver ==
    cow'.last.op = "copy" =>
      /\ cow'.insts[1] = cow.insts[1] /\ cow'.pend[1] = cow.pend[1]
      /\ cow'.last.kind = "fail" =>
           /\ cow'.result = 0 /\ cow'.insts = cow.insts
           /\ cow'.last.call.op = "safeUpdate"
      /\ cow'.last.kind = "ok" =>
           /\ cow'.result # 0
           /\ cow'.insts[cow'.result].id = cow.insts[1].id
           /\ cow'.insts[cow'.result].version = cow.insts[1].version
CopyIsDistinct == cow'.last.op = "copy" /\ cow'.last.kind = "ok" => cow'.result # 1
OtherIsUntouched ==
    (cow'.last.op \in {"apply", "clear"} /\ cow.result # 0) =>
      LET other == IF cow'.last.handle = "receiver" THEN cow.result ELSE 1
      IN  /\ cow'.insts[other].version = cow.insts[other].version
          /\ cow'.pend[other] = cow.pend[other]

\* C29: updateState, statePipe and safeUpdate return a distinct aggregate
\* with the receiver's identity and version and leave the receiver's state,
\* version and pending events unchanged (safeUpdate a Failure and no new
\* aggregate when the validator rejects); afterwards applying or clearing
\* events on either aggregate never changes the version or pending events
\* of the other.
C29_CopiesShareNothing ==
    [][CopyLeavesReceiver /\ CopyIsDistinct /\ OtherIsUntouched]_vars

\* The handlers of the list that do not succeed on the event.
NotSucceeding ==
    {i \in 1..Len(fIn.handlers) : fIn.handlers[i].does # "succeeds"}
FirstNotSucceeding ==
    CHOOSE i \in NotSucceeding : \A j \in NotSucceeding : i <= j

\* C30: the pipeline invokes the handlers in list order up to and including
\* the first that returns a Failure or throws, invokes none after it and
\* returns that handler's Failure (a throw converted into one); it returns
\* Success exactly when every handler succeeds, the empty list included.
C30_PipelineStopsAtFirstFailure ==
    fOut # NoOutcome =>
      LET n == Len(fIn.handlers)
          reached == IF NotSucceeding = {} THEN n ELSE FirstNotSucceeding
      IN  /\ fOut.invoked = [i \in 1..reached |-> i]
          /\ isOk(fOut.result) <=> NotSucceeding = {}
          /\ NotSucceeding # {} =>
               /\ isFail(fOut.result)
               /\ fOut.result.error.by = FirstNotSucceeding
               /\ fOut.result.error.event = fIn.event
C30_Witness ==
    /\ fOut # NoOutcome /\ Len(fIn.handlers) = 3
    /\ fIn.handlers[1].does = "succeeds" /\ fIn.handlers[2].does = "throwsError"
    /\ fIn.handlers[3].does = "fails"
    /\ fOut.invoked = <<1, 2>> /\ fOut.result.error.message = "thrown"

====
